---- MODULE Spec2Model ----
(***************************************************************************)
(* Model of the request execution core of creatorsarea-ts:                 *)
(* CreatorsAreaClient (waitForRateLimit, fetchWithRetry, getJobs,          *)
(* getJobById, getTags) as one client instance used sequentially.          *)
(*                                                                         *)
(* Time is the value of Date.now() in milliseconds.  Synchronous code      *)
(* takes no time; time passes only while a promise is pending (a           *)
(* setTimeout wait or the HTTP call).  A setTimeout callback runs at or    *)
(* after its deadline, never before it.  A Response is delivered whole     *)
(* (status, headers and body text); a rejected fetch rejects with an       *)
(* Error instance (TypeError), as the Fetch standard prescribes.           *)
(***************************************************************************)
EXTENDS Integers, Sequences, FiniteSets, TLC

\* ---------------------------------------------------------------- bounds
MaxRetriesBound == 2      \* largest configured maxRetries explored
MaxTime == 4              \* clock ticks of 1 ms are explored up to here
MaxCalls == 2             \* accessor calls made on the client in one run
MaxPages == 3             \* pages the service holds at most
MaxSetup == 2             \* synchronous builder calls before an execution method
MaxCallers == 4           \* calls in flight together on one client
MaxOps == 4               \* synchronous builder calls (setters, reset, build) in one run

\* ------------------------------------------------------ program constants
IdLen == 24               \* {24} of the ObjectId pattern
MsPerSecond == 1000       \* parseInt(retryAfter) * 1000
BackoffBase == 2          \* Math.pow(2, attempt)
DefaultDelayMs == 500     \* executeAll(delayMs = 500), stream(delayMs = 500)

\* -------------------------------------------------------- optional values
None == <<>>
Some(v) == <<v>>
IsSome(o) == o # <<>>
Val(o) == o[1]

Max(a, b) == IF a >= b THEN a ELSE b

RECURSIVE Pow(_, _)
Pow(b, e) == IF e = 0 THEN 1 ELSE b * Pow(b, e - 1)

RECURSIVE Rep(_, _)
Rep(c, n) == IF n = 0 THEN <<>> ELSE <<c>> \o Rep(c, n - 1)

\* ------------------------------------------------------------ input sets
RetryDelays == {1}
RequestDelays == {0, 2}
Timeouts == {2}
\* Date.now() when the client is constructed
StartTimes == {2}

HexChars == {"0", "1", "2", "3", "4", "5", "6", "7", "8", "9",
             "a", "b", "c", "d", "e", "f", "A", "B", "C", "D", "E", "F"}

\* job ids handed to getJobById: two well-formed ones and malformed ones
\* (too short, too long, a non-hex letter, empty)
GoodId == Rep("a", IdLen)
MixedId == Rep("0", IdLen - 2) \o <<"F", "b">>
JobIds == { GoodId, MixedId,
            Rep("a", IdLen - 1),
            Rep("a", IdLen + 1),
            Rep("a", IdLen - 1) \o <<"g">>,
            <<>> }

Pages == {None, Some(-1), Some(0)}

\* GetJobsOptions handed to getJobs: every page with no other filter, and
\* one call with every filter set
NoFilters(page) ==
    [volunteer |-> None, page |-> page, tags |-> None, kind |-> None,
     status |-> None, category |-> None]
OptionInputs ==
    { NoFilters(p) : p \in Pages } \cup
    { [volunteer |-> Some(TRUE), page |-> Some(1),
       tags |-> Some([isArray |-> TRUE, items |-> <<"t1", "t2">>]),
       kind |-> Some("TEAM"), status |-> Some("ACTIVE"),
       category |-> Some("DESIGNER")] }

\* HTTP statuses the server may answer with
Statuses == {200, 400, 404, 429, 503}

\* Retry-After header: absent, or the header text as a sequence of characters
RetryAfterHeaders == {None, Some(<<"1">>)}

\* raw response bodies
Bodies == {"garbage", "null", "{}", "jobs"}
NoBody == "<none>"

\* a 2xx answer carries any body; an error answer carries one of two raw
\* texts; a Retry-After header comes with a 429 or a 5xx
ErrorBodies == {"garbage", "{}"}
Responses ==
    [status : {200}, body : Bodies, retryAfter : {None}] \cup
    [status : {400, 404}, body : ErrorBodies, retryAfter : {None}] \cup
    [status : {429, 503}, body : ErrorBodies, retryAfter : RetryAfterHeaders]
NoResponse == [status |-> 0, body |-> NoBody, retryAfter |-> None]

VARIABLES
    maxRetries, retryDelay, requestDelay, timeout,   \* ClientConfig (readonly)
    lastRequestTime,     \* this.lastRequestTime
    now,                 \* Date.now()
    pc,                  \* position of the current accessor call
    call,                \* the accessor call in progress or last made
    attempt,             \* fetchWithRetry's attempt parameter
    wakeAt,              \* deadline of the pending setTimeout(resolve, delay), if any
    timeoutId,           \* abort timer of the attempt: None when cleared
    response,            \* the Response fetchWithRetry ended with, if any
    outcome,             \* what the accessor returned or threw
    transport,           \* history: how fetchWithRetry ended (return / throw)
    trace,               \* history: how each HTTP attempt of this call ended
    gateEntries,         \* history: waitForRateLimit entries of this call
    prevSent, lastSent,  \* history: send times of the last two HTTP calls
    httpCalls,           \* history: HTTP calls sent for this accessor call
    calls,               \* history: accessor calls made so far
    thisOptions,         \* JobQueryBuilder: this.options (the FilterState)
    heap,                \* the arrays of tag ids alive in the program, by reference
    built,               \* the object the last build() returned, if any
    builtValue,          \* history: what that object held when build() returned
    log,                 \* history: the synchronous builder calls made so far
    thrown,              \* what the last synchronous builder call threw, if anything
    returned,            \* what it returned: "this", the "object" of build(), or "none"
    totalPages,          \* the service: pages of the job listing it holds
    method,              \* the execution method called on the builder, if any
    qpc,                 \* position of that method's body
    currentPage,         \* executeAll / stream: let currentPage
    hasMore,             \* executeAll / stream: let hasMore
    allJobs,             \* executeAll: const allJobs
    buffer,              \* stream: the results the for...of loop has not reached yet
    delayMs,             \* executeAll / stream: the delayMs parameter
    walkWake,            \* deadline of the pending setTimeout(resolve, delayMs), if any
    pagination,          \* stream: const { results, pagination } of the page in hand
    delays,              \* history: the delays the walk has armed between pages
    parked,              \* a second walk on the same builder, suspended while this one runs
    qresult,             \* what the method's promise settled with
    fetched,             \* history: the options of each getJobs call the method made
    yielded,             \* history: the jobs the generator has yielded
    extraArgs,           \* history: arguments the caller passed beyond the parameters
    callers              \* calls in flight together on one client: where each is in waitForRateLimit

vars == <<maxRetries, retryDelay, requestDelay, timeout, lastRequestTime, now,
          pc, call, attempt, wakeAt, timeoutId, response, outcome, transport, trace,
          gateEntries, prevSent, lastSent, httpCalls, calls,
          thisOptions, heap, built, builtValue, log, thrown, returned,
          totalPages, method, qpc, currentPage, hasMore, allJobs, buffer, delayMs,
          walkWake, pagination, delays, parked, qresult, fetched, yielded,
          extraArgs, callers>>

\* the variables of the client
clientVars == <<maxRetries, retryDelay, requestDelay, timeout, lastRequestTime,
                now, pc, call, attempt, wakeAt, timeoutId, response, outcome,
                transport, trace, gateEntries, prevSent, lastSent, httpCalls, calls>>

\* the variables of the query builder's filters
filterVars == <<thisOptions, heap, built, builtValue, log, thrown, returned>>

\* the variables of an execution method, and the service's listing
queryVars == <<totalPages, method, qpc, currentPage, hasMore, allJobs, buffer,
               delayMs, walkWake, pagination, delays, parked, qresult, fetched,
               yielded, extraArgs>>

config == <<maxRetries, retryDelay, requestDelay, timeout>>

\* ------------------------------------------------------------ exceptions
\* An error value: type is the class name (exceptions.ts), or the name of a
\* native Error ("TypeError" of a failed fetch, "AbortError" of an aborted
\* one, "SyntaxError" of response.json()).
NoStatus == None
NoCause == "<none>"
Error(type, statusCode, body, cause) ==
    [type |-> type, statusCode |-> statusCode, response |-> body, cause |-> cause]
APIError(statusCode, body) == Error("APIError", Some(statusCode), body, NoCause)
NetworkError(cause) == Error("NetworkError", NoStatus, NoBody, cause)
ValidationError == Error("ValidationError", NoStatus, NoBody, NoCause)
NativeError(name) == Error(name, NoStatus, NoBody, NoCause)
NoError == Error("<none>", NoStatus, NoBody, NoCause)

LibraryErrors == {"APIError", "ValidationError", "NetworkError"}

\* ------------------------------------------------ results of an accessor
NoValue == [results |-> <<>>, pagination |-> None, values |-> <<>>]
Pending == [kind |-> "pending", error |-> NoError, value |-> NoValue]
Returned(v) == [kind |-> "value", error |-> NoError, value |-> v]
ReturnedNull == [kind |-> "null", error |-> NoError, value |-> NoValue]
Thrown(e) == [kind |-> "error", error |-> e, value |-> NoValue]

\* --------------------------------------------------------- JSON decoding
\* The job listing the service holds: PageJobs(p) are the jobs of page p of
\* a listing of totalPages pages; a page outside the listing is empty.
PageJobs(p) == <<"j" \o ToString(p) \o "a", "j" \o ToString(p) \o "b">>
PageItems(p, pages) == IF p < pages THEN PageJobs(p) ELSE <<>>
TotalItems(pages) == pages * Len(PageJobs(0))

\* the raw body of the answer to a request for page p: the text of
\* { results: [...], pagination: {...} }, or of { pagination: {...} } alone
PageBody(p, pages, withResults) ==
    (IF withResults THEN "results+pagination " ELSE "pagination ")
    \o ToString(p) \o "/" \o ToString(pages)
PageBodies ==
    [page : 0..(MaxPages + 1), totalPages : 0..MaxPages, results : BOOLEAN]

\* the value of a results field: a JSON array of jobs, or a JSON object
\* whose members (key, job) are listed in the order of the text
ArrayOf(jobs) == [form |-> "array", items |-> jobs, entries |-> <<>>]
ObjectOf(members) == [form |-> "object", items |-> <<>>, entries |-> members]
Reverse(seq) == [i \in 1..Len(seq) |-> seq[Len(seq) + 1 - i]]

\* other bodies a service may send for page p: results as an object keyed
\* "0".."n-1", the same with its members written in reverse, and a body
\* without a pagination field
Shapes == {"object", "objectReversed", "noPagination"}
ShapedBody(shape, p, pages) ==
    shape \o " " \o ToString(p) \o "/" \o ToString(pages)
ShapedBodies ==
    [shape : Shapes, page : 0..(MaxPages + 1), totalPages : 0..MaxPages]

\* Object.values(obj) of an object with integer keys: the values in
\* ascending key order, whatever the order of the text
ObjectValues(members) ==
    [i \in 1..Len(members) |->
        (CHOOSE m \in {members[j] : j \in 1..Len(members)} :
            Cardinality({j \in 1..Len(members) : members[j].key < m.key}) = i - 1).value]

\* Array.isArray(data.results) ? data.results : Object.values(data.results)
Normalise(results) ==
    IF results.form = "array" THEN results.items ELSE ObjectValues(results.entries)

\* response.json() of each raw body: syntaxOk is FALSE when JSON.parse
\* throws; isObject is (typeof data === 'object' && data !== null);
\* results / pagination are the fields of that name when truthy; values is
\* Object.values(data) in key order.
Decode(body) ==
    CASE body = "garbage" ->
           [syntaxOk |-> FALSE, isObject |-> FALSE, results |-> None,
            pagination |-> None, values |-> <<>>]
      [] body = "null" ->
           [syntaxOk |-> TRUE, isObject |-> FALSE, results |-> None,
            pagination |-> None, values |-> <<>>]
      [] body = "{}" ->
           [syntaxOk |-> TRUE, isObject |-> TRUE, results |-> None,
            pagination |-> None, values |-> <<>>]
      [] body = "jobs" ->
           [syntaxOk |-> TRUE, isObject |-> TRUE,
            results |-> Some(ArrayOf(<<"j1", "j2">>)),
            pagination |-> Some([totalItems |-> 2, totalPages |-> 1, page |-> 0]),
            values |-> <<"results", "pagination">>]
      [] body \in { ShapedBody(x.shape, x.page, x.totalPages) : x \in ShapedBodies } ->
           LET d == CHOOSE x \in ShapedBodies :
                        ShapedBody(x.shape, x.page, x.totalPages) = body
               jobs == PageItems(d.page, d.totalPages)
               keyed == [i \in 1..Len(jobs) |-> [key |-> i - 1, value |-> jobs[i]]]
           IN  [syntaxOk |-> TRUE, isObject |-> TRUE,
                results |-> CASE d.shape = "object" -> Some(ObjectOf(keyed))
                              [] d.shape = "objectReversed" -> Some(ObjectOf(Reverse(keyed)))
                              [] OTHER -> Some(ArrayOf(jobs)),
                pagination |-> IF d.shape = "noPagination" THEN None
                               ELSE Some([totalItems |-> TotalItems(d.totalPages),
                                          totalPages |-> d.totalPages,
                                          page |-> d.page]),
                values |-> IF d.shape = "noPagination" THEN <<"results">>
                           ELSE <<"results", "pagination">>]
      [] OTHER ->
           LET d == CHOOSE x \in PageBodies : PageBody(x.page, x.totalPages, x.results) = body
           IN  [syntaxOk |-> TRUE, isObject |-> TRUE,
                results |-> IF d.results
                            THEN Some(ArrayOf(PageItems(d.page, d.totalPages)))
                            ELSE None,
                pagination |-> Some([totalItems |-> TotalItems(d.totalPages),
                                     totalPages |-> d.totalPages,
                                     page |-> d.page]),
                values |-> IF d.results THEN <<"results", "pagination">>
                           ELSE <<"pagination">>]

\* response.ok
Ok(r) == r.status >= 200 /\ r.status <= 299

\* mutant: the catch clause rethrows whatever it caught
AccessorCatchRethrow(e) == e

\* mutant: the wrapping NetworkError drops its cause
AccessorCatchNoCause(e) ==
    IF e.type \in LibraryErrors THEN e ELSE NetworkError(NoCause)

\* the catch clause shared by getTags, getJobs and getJobById: library
\* errors pass, anything else is wrapped in a NetworkError whose cause is
\* the error (all errors modelled here are instances of Error)
AccessorCatch(e) ==
    IF e.type \in LibraryErrors THEN e ELSE NetworkError(e.type)

\* mutant: the shape check does not look at pagination
getJobsResponseNoPaginationCheck(r) ==
    IF ~Ok(r) THEN Thrown(AccessorCatch(APIError(r.status, r.body)))
    ELSE LET data == Decode(r.body) IN
         IF ~data.syntaxOk THEN Thrown(AccessorCatch(NativeError("SyntaxError")))
         ELSE IF ~data.isObject \/ ~IsSome(data.results)
              THEN Thrown(AccessorCatch(ValidationError))
         ELSE Returned([results |-> Normalise(Val(data.results)),
                        pagination |-> data.pagination,
                        values |-> <<>>])

\* getJobs from the point where fetchWithRetry has returned r
getJobsResponse(r) ==
    IF ~Ok(r) THEN Thrown(AccessorCatch(APIError(r.status, r.body)))
    ELSE LET data == Decode(r.body) IN
         IF ~data.syntaxOk THEN Thrown(AccessorCatch(NativeError("SyntaxError")))
         ELSE IF ~data.isObject \/ ~IsSome(data.results) \/ ~IsSome(data.pagination)
              THEN Thrown(AccessorCatch(ValidationError))
         ELSE Returned([results |-> Normalise(Val(data.results)),
                        pagination |-> data.pagination,
                        values |-> <<>>])

\* mutant: getJobById without the 404 case
getJobByIdResponseNo404(r) ==
    IF ~Ok(r) THEN Thrown(AccessorCatch(APIError(r.status, r.body)))
    ELSE LET data == Decode(r.body) IN
         IF ~data.syntaxOk THEN Thrown(AccessorCatch(NativeError("SyntaxError")))
         ELSE Returned([results |-> <<>>, pagination |-> None,
                        values |-> <<r.body>>])

\* getJobById from the point where fetchWithRetry has returned r
getJobByIdResponse(r) ==
    IF r.status = 404 THEN ReturnedNull
    ELSE IF ~Ok(r) THEN Thrown(AccessorCatch(APIError(r.status, r.body)))
    ELSE LET data == Decode(r.body) IN
         IF ~data.syntaxOk THEN Thrown(AccessorCatch(NativeError("SyntaxError")))
         ELSE Returned([results |-> <<>>, pagination |-> None,
                        values |-> <<r.body>>])

\* getTags from the point where fetchWithRetry has returned r
getTagsResponse(r) ==
    IF ~Ok(r) THEN Thrown(AccessorCatch(APIError(r.status, r.body)))
    ELSE LET data == Decode(r.body) IN
         IF ~data.syntaxOk THEN Thrown(AccessorCatch(NativeError("SyntaxError")))
         ELSE IF ~data.isObject THEN Thrown(AccessorCatch(ValidationError))
         ELSE Returned([results |-> <<>>, pagination |-> None,
                        values |-> data.values])

AccessorResponse(op, r) ==
    CASE op = "getJobs" -> getJobsResponse(r)
      [] op = "getJobById" -> getJobByIdResponse(r)
      [] OTHER -> getTagsResponse(r)

\* an error thrown out of fetchWithRetry, as the accessor surfaces it
AccessorThrow(e) == Thrown(AccessorCatch(e))

\* mutant: the pattern without its end anchor
IsObjectIdUnanchored(jobId) ==
    /\ Len(jobId) >= IdLen
    /\ \A i \in 1..IdLen : jobId[i] \in HexChars

\* /^[0-9a-fA-F]{24}$/.test(jobId)
IsObjectId(jobId) ==
    /\ Len(jobId) = IdLen
    /\ \A i \in 1..Len(jobId) : jobId[i] \in HexChars

\* ---------------------------------------------------------- fetchWithRetry
Digits == {"0", "1", "2", "3", "4", "5", "6", "7", "8", "9"}
DigitVal(c) ==
    CASE c = "0" -> 0 [] c = "1" -> 1 [] c = "2" -> 2 [] c = "3" -> 3
      [] c = "4" -> 4 [] c = "5" -> 5 [] c = "6" -> 6 [] c = "7" -> 7
      [] c = "8" -> 8 [] OTHER -> 9

RECURSIVE DigitPrefix(_)
DigitPrefix(s) ==
    IF s = <<>> \/ s[1] \notin Digits THEN <<>>
    ELSE <<s[1]>> \o DigitPrefix(Tail(s))

RECURSIVE DigitsValue(_)
DigitsValue(s) ==
    IF s = <<>> THEN 0
    ELSE DigitsValue(SubSeq(s, 1, Len(s) - 1)) * 10 + DigitVal(s[Len(s)])

\* parseInt(text): the value of the leading digits, None for NaN
ParseInt(text) ==
    IF DigitPrefix(text) = <<>> THEN None ELSE Some(DigitsValue(DigitPrefix(text)))

\* mutant: every retry waits the base delay
BackoffFlat(rd, att) == rd

\* retryDelay * Math.pow(2, attempt)
Backoff(rd, att) == rd * Pow(BackoffBase, att)

\* the delay computed on a 429: a header that is present and not the empty
\* string replaces the backoff; None is NaN
RateLimitDelay(r, rd, att) ==
    IF IsSome(r.retryAfter) /\ Val(r.retryAfter) # <<>>
    THEN IF IsSome(ParseInt(Val(r.retryAfter)))
         THEN Some(Val(ParseInt(Val(r.retryAfter))) * MsPerSecond)
         ELSE None
    ELSE Some(Backoff(rd, att))

\* what one pass through fetchWithRetry decides
Retry(delay) == [act |-> "retry", delay |-> delay, error |-> NoError]
Return == [act |-> "return", delay |-> None, error |-> NoError]
Throw(e) == [act |-> "throw", delay |-> None, error |-> e]

\* mutant: network failures get one retry more than the budget
OnCatchOffByOne(e, att, mr, rd) ==
    IF e.type = "AbortError" THEN Throw(NetworkError(NoCause))
    ELSE IF att <= mr /\ e.type # "APIError" THEN Retry(Some(Backoff(rd, att)))
    ELSE Throw(e)

\* mutant: a timeout takes the network-failure retry path
OnCatchRetryTimeout(e, att, mr, rd) ==
    IF att < mr /\ e.type # "APIError" THEN Retry(Some(Backoff(rd, att)))
    ELSE Throw(e)

\* mutant: a network failure is retried whatever the attempt number
OnCatchNoBudget(e, att, mr, rd) ==
    IF e.type = "AbortError" THEN Throw(NetworkError(NoCause))
    ELSE IF e.type # "APIError" THEN Retry(Some(Backoff(rd, att)))
    ELSE Throw(e)

\* the catch clause of fetchWithRetry
OnCatch(e, att, mr, rd) ==
    IF e.type = "AbortError" THEN Throw(NetworkError(NoCause))
    ELSE IF att < mr /\ e.type # "APIError" THEN Retry(Some(Backoff(rd, att)))
    ELSE Throw(e)

\* mutant: the APIError of an exhausted 429 does not carry the body
OnResponseNoBody(r, att, mr, rd) ==
    IF r.status = 429
    THEN IF att < mr THEN Retry(RateLimitDelay(r, rd, att))
         ELSE Throw(APIError(429, NoBody))
    ELSE IF r.status >= 500 /\ r.status < 600 /\ att < mr
         THEN Retry(Some(Backoff(rd, att)))
    ELSE Return

\* mutant: a 5xx is never retried
OnResponseNo5xxRetry(r, att, mr, rd) ==
    IF r.status = 429
    THEN IF att < mr THEN Retry(RateLimitDelay(r, rd, att))
         ELSE Throw(APIError(429, r.body))
    ELSE Return

\* mutant: every status from 400 up is retried like a 5xx
OnResponseRetry4xx(r, att, mr, rd) ==
    IF r.status = 429
    THEN IF att < mr THEN Retry(RateLimitDelay(r, rd, att))
         ELSE Throw(APIError(429, r.body))
    ELSE IF r.status >= 400 /\ r.status < 600 /\ att < mr
         THEN Retry(Some(Backoff(rd, att)))
    ELSE Return

\* the try block of fetchWithRetry once fetch has resolved with r
OnResponse(r, att, mr, rd) ==
    IF r.status = 429
    THEN IF att < mr THEN Retry(RateLimitDelay(r, rd, att))
         ELSE OnCatch(APIError(429, r.body), att, mr, rd)
    ELSE IF r.status >= 500 /\ r.status < 600 /\ att < mr
         THEN Retry(Some(Backoff(rd, att)))
    ELSE Return

\* setTimeout(resolve, delay) armed at time t: a NaN or negative delay
\* fires as soon as possible
TimerAt(t, delay) == IF IsSome(delay) THEN t + Max(Val(delay), 0) ELSE t

\* ------------------------------------------------------------------ URLs
RECURSIVE Join(_)
\* tagArray.join(',')
Join(items) ==
    IF Len(items) <= 1 THEN items
    ELSE <<items[1], ",">> \o Join(Tail(items))

Param(name, o, text) == IF IsSome(o) THEN <<<<name, text>>>> ELSE <<>>

\* the URLSearchParams getJobs builds, in append order
QueryParams(o) ==
    Param("volunteer", o.volunteer,
          IF IsSome(o.volunteer) /\ Val(o.volunteer) THEN <<"true">> ELSE <<"false">>)
    \o Param("page", o.page, IF IsSome(o.page) THEN <<ToString(Val(o.page))>> ELSE <<>>)
    \o (IF IsSome(o.tags) /\ Len(Val(o.tags).items) > 0
        THEN <<<<"tags", Join(Val(o.tags).items)>>>> ELSE <<>>)
    \o Param("kind", o.kind, o.kind)
    \o Param("status", o.status, o.status)
    \o Param("category", o.category, o.category)

JobsUrl(o) == [path |-> <<"offers">>, query |-> QueryParams(o)]
JobUrl(jobId) == [path |-> <<"offers">> \o jobId, query |-> <<>>]
TagsUrl == [path |-> <<"tags", "offers">>, query |-> <<>>]
NoUrl == [path |-> <<>>, query |-> <<>>]

Call(op, options, jobId, url) ==
    [op |-> op, options |-> options, jobId |-> jobId, url |-> url]

\* ------------------------------------------------------------------ Init
ClientInit ==
    /\ maxRetries \in 0..MaxRetriesBound
    /\ retryDelay \in RetryDelays
    /\ requestDelay \in RequestDelays
    /\ timeout \in Timeouts
    /\ lastRequestTime = 0
    /\ now \in StartTimes
    /\ pc = "idle"
    /\ call = Call("none", NoFilters(None), <<>>, NoUrl)
    /\ attempt = 0
    /\ wakeAt = None
    /\ timeoutId = None
    /\ response = NoResponse
    /\ outcome = Pending
    /\ transport = "none"
    /\ trace = <<>>
    /\ gateEntries = 0
    /\ prevSent = None
    /\ lastSent = None
    /\ httpCalls = 0
    /\ calls = 0

\* ------------------------------------------------------- waitForRateLimit
\* the HTTP call leaves: lastRequestTime is set, the abort timer is armed
\* and fetch is called, with no suspension in between (sentBefore is the
\* number of HTTP calls this accessor call has sent before this one)
SendRequest(sentBefore) ==
    /\ lastRequestTime' = now
    /\ timeoutId' = Some(now + timeout)
    /\ pc' = "fetching"
    /\ prevSent' = lastSent
    /\ lastSent' = Some(now)
    /\ httpCalls' = sentBefore + 1
    /\ wakeAt' = None

\* mutant: the gate records the time but never waits
waitForRateLimitNoWait(entriesBefore, sentBefore) ==
    /\ gateEntries' = entriesBefore + 1
    /\ SendRequest(sentBefore)

\* mutant: the gate records the time on entry, before it waits
waitForRateLimitStampFirst(entriesBefore, sentBefore) ==
    /\ gateEntries' = entriesBefore + 1
    /\ IF now - lastRequestTime < requestDelay
       THEN /\ wakeAt' = Some(now + (requestDelay - (now - lastRequestTime)))
            /\ pc' = "gateWait"
            /\ httpCalls' = sentBefore
            /\ lastRequestTime' = now
            /\ UNCHANGED <<timeoutId, prevSent, lastSent>>
       ELSE SendRequest(sentBefore)

\* entry of fetchWithRetry: waitForRateLimit either suspends for the rest
\* of requestDelay or falls through to the HTTP call
waitForRateLimit(entriesBefore, sentBefore) ==
    /\ gateEntries' = entriesBefore + 1
    /\ IF now - lastRequestTime < requestDelay
       THEN /\ wakeAt' = Some(now + (requestDelay - (now - lastRequestTime)))
            /\ pc' = "gateWait"
            /\ httpCalls' = sentBefore
            /\ UNCHANGED <<lastRequestTime, timeoutId, prevSent, lastSent>>
       ELSE SendRequest(sentBefore)

\* the rate-limit wait is over
GateElapsed ==
    /\ pc = "gateWait"
    /\ now >= Val(wakeAt)
    /\ SendRequest(httpCalls)
    /\ UNCHANGED <<config, now, call, attempt, response, outcome, transport,
                   trace, gateEntries, calls>>

\* ------------------------------------ waitForRateLimit, several callers
\* Calls started on one client without awaiting the previous one: each runs
\* waitForRateLimit on the same this.lastRequestTime. A caller is outside
\* the gate, suspended in it, or past it (its request sent); read is the
\* this.lastRequestTime it computed its delay from.
CallerIds == 1..MaxCallers
Outside == [pc |-> "out", read |-> None, wakeAt |-> None, sentAt |-> None]
Suspended(read, wake) ==
    [pc |-> "waiting", read |-> Some(read), wakeAt |-> Some(wake), sentAt |-> None]
Through(c, read, t) ==
    [pc |-> "sent", read |-> Some(read), wakeAt |-> c.wakeAt, sentAt |-> Some(t)]

GateInit == callers = [p \in CallerIds |-> Outside]

\* mutant: a caller that has to wait books its slot in lastRequestTime
waitForRateLimitBooking(p) ==
    /\ callers[p].pc = "out"
    /\ IF now - lastRequestTime < requestDelay
       THEN /\ callers' = [callers EXCEPT ![p] =
                   Suspended(lastRequestTime, now + (requestDelay - (now - lastRequestTime)))]
            /\ lastRequestTime' = now + (requestDelay - (now - lastRequestTime))
       ELSE /\ callers' = [callers EXCEPT ![p] = Through(@, lastRequestTime, now)]
            /\ lastRequestTime' = now
    /\ UNCHANGED now

\* caller p enters waitForRateLimit: it suspends for the rest of
\* requestDelay, or records the time and goes on to send
waitForRateLimitBy(p) ==
    /\ callers[p].pc = "out"
    /\ IF now - lastRequestTime < requestDelay
       THEN /\ callers' = [callers EXCEPT ![p] =
                   Suspended(lastRequestTime, now + (requestDelay - (now - lastRequestTime)))]
            /\ UNCHANGED lastRequestTime
       ELSE /\ callers' = [callers EXCEPT ![p] = Through(@, lastRequestTime, now)]
            /\ lastRequestTime' = now
    /\ UNCHANGED now

\* caller p's timer has fired: it records the time and goes on to send
waitForRateLimitResumed(p) ==
    /\ callers[p].pc = "waiting"
    /\ now >= Val(callers[p].wakeAt)
    /\ callers' = [callers EXCEPT ![p] = Through(@, Val(@.read), now)]
    /\ lastRequestTime' = now
    /\ UNCHANGED now

\* a millisecond passes; a timer that is due fires before the clock moves
GateTick ==
    /\ now < MaxTime
    /\ \A p \in CallerIds : callers[p].pc = "waiting" => now < Val(callers[p].wakeAt)
    /\ now' = now + 1
    /\ UNCHANGED <<lastRequestTime, callers>>

\* the variables the gate does not touch
gateFrame == <<config, pc, call, attempt, wakeAt, timeoutId, response, outcome,
               transport, trace, gateEntries, prevSent, lastSent, httpCalls, calls,
               filterVars, queryVars>>

\* ------------------------------------------------------- accessor entries
CanCall == pc \in {"idle", "returned"} /\ calls < MaxCalls

StartCall(op, options, jobId, url) ==
    /\ calls' = calls + 1
    /\ call' = Call(op, options, jobId, url)
    /\ trace' = <<>>
    /\ response' = NoResponse
    /\ UNCHANGED <<config, now>>

\* the accessor fails before its try block: nothing else happens
FailFast(e) ==
    /\ outcome' = Thrown(e)
    /\ transport' = "none"
    /\ pc' = "returned"
    /\ gateEntries' = 0
    /\ httpCalls' = 0
    /\ UNCHANGED <<lastRequestTime, attempt, wakeAt, timeoutId, prevSent, lastSent>>

\* the accessor calls fetchWithRetry(url, options) with attempt = 0
FirstAttempt ==
    /\ outcome' = Pending
    /\ transport' = "none"
    /\ attempt' = 0
    /\ waitForRateLimit(0, 0)

\* mutant: getJobs without the page check
getJobsNoPageCheck(options) ==
    /\ CanCall
    /\ StartCall("getJobs", options, <<>>, JobsUrl(options))
    /\ FirstAttempt

getJobs(options) ==
    /\ CanCall
    /\ StartCall("getJobs", options, <<>>, JobsUrl(options))
    /\ IF IsSome(options.page) /\ Val(options.page) < 0
       THEN FailFast(ValidationError)
       ELSE FirstAttempt

\* getJobs called by a method of the builder while the client is at rest
\* (the caller's own budget of accessor calls does not apply)
getJobsCall(options) ==
    /\ pc \in {"idle", "returned"}
    /\ StartCall("getJobs", options, <<>>, JobsUrl(options))
    /\ IF IsSome(options.page) /\ Val(options.page) < 0
       THEN FailFast(ValidationError)
       ELSE FirstAttempt

getJobById(jobId) ==
    /\ CanCall
    /\ StartCall("getJobById", NoFilters(None), jobId, JobUrl(jobId))
    /\ IF ~IsObjectId(jobId)
       THEN FailFast(ValidationError)
       ELSE FirstAttempt

getTags ==
    /\ CanCall
    /\ StartCall("getTags", NoFilters(None), <<>>, TagsUrl)
    /\ FirstAttempt

\* ---------------------------------------------------------- fetchWithRetry
\* mutant: the abort timer is left armed when the attempt is retried
DecideKeepsTimer(d, r) ==
    /\ CASE d.act = "retry" ->
              /\ wakeAt' = Some(TimerAt(now, d.delay))
              /\ pc' = "backoff"
              /\ response' = NoResponse
              /\ UNCHANGED <<outcome, transport, timeoutId>>
         [] d.act = "return" ->
              /\ outcome' = AccessorResponse(call.op, r)
              /\ transport' = "return"
              /\ pc' = "returned"
              /\ response' = r
              /\ timeoutId' = None
              /\ UNCHANGED wakeAt
         [] OTHER ->
              /\ outcome' = AccessorThrow(d.error)
              /\ transport' = "throw"
              /\ pc' = "returned"
              /\ response' = r
              /\ timeoutId' = None
              /\ UNCHANGED wakeAt
    /\ UNCHANGED <<config, now, lastRequestTime, call, attempt, gateEntries,
                   prevSent, lastSent, httpCalls, calls>>

\* one pass through fetchWithRetry ends with decision d
Decide(d, r) ==
    /\ timeoutId' = None
    /\ CASE d.act = "retry" ->
              /\ wakeAt' = Some(TimerAt(now, d.delay))
              /\ pc' = "backoff"
              /\ response' = NoResponse
              /\ UNCHANGED <<outcome, transport>>
         [] d.act = "return" ->
              /\ outcome' = AccessorResponse(call.op, r)
              /\ transport' = "return"
              /\ pc' = "returned"
              /\ response' = r
              /\ UNCHANGED wakeAt
         [] OTHER ->
              /\ outcome' = AccessorThrow(d.error)
              /\ transport' = "throw"
              /\ pc' = "returned"
              /\ response' = r
              /\ UNCHANGED wakeAt
    /\ UNCHANGED <<config, now, lastRequestTime, call, attempt, gateEntries,
                   prevSent, lastSent, httpCalls, calls>>

\* fetch resolves with a Response
FetchResolve(r) ==
    /\ pc = "fetching"
    /\ trace' = Append(trace, [kind |-> "response", status |-> Some(r.status)])
    /\ Decide(OnResponse(r, attempt, maxRetries, retryDelay), r)

\* fetch rejects: DNS, connection refused, reset
FetchReject ==
    /\ pc = "fetching"
    /\ trace' = Append(trace, [kind |-> "failure", status |-> NoStatus])
    /\ Decide(OnCatch(NativeError("TypeError"), attempt, maxRetries, retryDelay),
              NoResponse)

\* the abort timer fires while fetch is pending: controller.abort()
FetchAbort ==
    /\ pc = "fetching"
    /\ IsSome(timeoutId)
    /\ now >= Val(timeoutId)
    /\ trace' = Append(trace, [kind |-> "timeout", status |-> NoStatus])
    /\ Decide(OnCatch(NativeError("AbortError"), attempt, maxRetries, retryDelay),
              NoResponse)

\* the backoff wait is over: return this.fetchWithRetry(url, options, attempt + 1)
BackoffElapsed ==
    /\ pc = "backoff"
    /\ now >= Val(wakeAt)
    /\ attempt' = attempt + 1
    /\ waitForRateLimit(gateEntries, httpCalls)
    /\ UNCHANGED <<config, now, call, response, outcome, transport, trace, calls>>

\* ------------------------------------------------------------------ time
Waiting == pc \in {"gateWait", "backoff", "fetching"}
NextTimer == IF pc = "fetching" THEN Val(timeoutId) ELSE Val(wakeAt)

\* a millisecond passes
Tick ==
    /\ now < MaxTime
    /\ now' = now + 1
    /\ UNCHANGED <<config, lastRequestTime, pc, call, attempt, wakeAt, timeoutId,
                   response, outcome, transport, trace, gateEntries, prevSent,
                   lastSent, httpCalls, calls>>

\* nothing happens until the pending timer is due
Elapse ==
    /\ Waiting
    /\ now < NextTimer
    /\ now' = NextTimer
    /\ UNCHANGED <<config, lastRequestTime, pc, call, attempt, wakeAt, timeoutId,
                   response, outcome, transport, trace, gateEntries, prevSent,
                   lastSent, httpCalls, calls>>

\* ================================================= JobQueryBuilder state
\* arguments the caller hands to the setters
VolunteerInputs == BOOLEAN
PageInputs == {-1, 0, 1}
TagStrings == {"t1"}
TagArrays == {<<"t1", "t2">>}
AddedTags == {"t3"}
KindInputs == {"TEAM"}
StatusInputs == {"ACTIVE"}
CategoryInputs == {"DESIGNER"}

\* this.options.tags is a string or a reference to an array in the heap
TagString(text) == [isArray |-> FALSE, text |-> text, ref |-> 0]
TagArray(ref) == [isArray |-> TRUE, text |-> "", ref |-> ref]

\* {}
EmptyOptions == NoFilters(None)

\* the GetJobsOptions getJobs reads out of an options object o: the tag
\* array is read through its reference at the time of the call
TagItems(t, h) == IF t.isArray THEN h[t.ref] ELSE <<t.text>>
Resolve(o, h) ==
    [o EXCEPT !.tags = IF IsSome(o.tags)
                       THEN Some([isArray |-> Val(o.tags).isArray,
                                  items |-> TagItems(Val(o.tags), h)])
                       ELSE None]

\* a synchronous builder call that changes this.options (and maybe the heap)
CanEdit == Len(log) < MaxOps
Logged(op, arg) == log' = Append(log, [op |-> op, arg |-> arg])
Edit(o, h) ==
    /\ CanEdit
    /\ thisOptions' = o
    /\ heap' = h
    /\ thrown' = NoError
    /\ returned' = "this"
    /\ UNCHANGED <<built, builtValue>>

volunteer(isVolunteer) ==
    /\ Logged("volunteer", <<ToString(isVolunteer)>>)
    /\ Edit([thisOptions EXCEPT !.volunteer = Some(isVolunteer)], heap)

\* mutant: page() without the check
pageNoCheck(pageNumber) ==
    /\ Logged("page", <<ToString(pageNumber)>>)
    /\ Edit([thisOptions EXCEPT !.page = Some(pageNumber)], heap)

page(pageNumber) ==
    /\ Logged("page", <<ToString(pageNumber)>>)
    /\ IF pageNumber < 0
       THEN /\ CanEdit
            /\ thrown' = NativeError("Error")
            /\ returned' = "none"
            /\ UNCHANGED <<thisOptions, heap, built, builtValue>>
       ELSE Edit([thisOptions EXCEPT !.page = Some(pageNumber)], heap)

\* tags(tagIds) with a string
tagsString(tagId) ==
    /\ Logged("tags", <<tagId>>)
    /\ Edit([thisOptions EXCEPT !.tags = Some(TagString(tagId))], heap)

\* tags(tagIds) with an array the caller has just created
tagsArray(tagIds) ==
    /\ Logged("tags", tagIds)
    /\ Edit([thisOptions EXCEPT !.tags = Some(TagArray(Len(heap) + 1))],
            Append(heap, tagIds))

\* mutant: a tag already in the array is not added again
addTagUnique(tagId) ==
    /\ Logged("addTag", <<tagId>>)
    /\ IF ~IsSome(thisOptions.tags)
          \/ (~Val(thisOptions.tags).isArray /\ Val(thisOptions.tags).text = "")
       THEN Edit([thisOptions EXCEPT !.tags = Some(TagArray(Len(heap) + 1))],
                 Append(heap, <<tagId>>))
       ELSE IF ~Val(thisOptions.tags).isArray
       THEN Edit([thisOptions EXCEPT !.tags = Some(TagArray(Len(heap) + 1))],
                 Append(heap, <<Val(thisOptions.tags).text, tagId>>))
       ELSE LET items == heap[Val(thisOptions.tags).ref] IN
            Edit(thisOptions,
                 [heap EXCEPT ![Val(thisOptions.tags).ref] =
                     IF \E i \in 1..Len(items) : items[i] = tagId
                     THEN @ ELSE Append(@, tagId)])

\* if (!tags) tags = [tagId]; else if (typeof tags === 'string')
\* tags = [tags, tagId]; else tags.push(tagId)
addTag(tagId) ==
    /\ Logged("addTag", <<tagId>>)
    /\ IF ~IsSome(thisOptions.tags)
          \/ (~Val(thisOptions.tags).isArray /\ Val(thisOptions.tags).text = "")
       THEN Edit([thisOptions EXCEPT !.tags = Some(TagArray(Len(heap) + 1))],
                 Append(heap, <<tagId>>))
       ELSE IF ~Val(thisOptions.tags).isArray
       THEN Edit([thisOptions EXCEPT !.tags = Some(TagArray(Len(heap) + 1))],
                 Append(heap, <<Val(thisOptions.tags).text, tagId>>))
       ELSE Edit(thisOptions,
                 [heap EXCEPT ![Val(thisOptions.tags).ref] = Append(@, tagId)])

\* mutant: kind() starts from an empty status
kindClearsStatus(jobKind) ==
    /\ Logged("kind", <<jobKind>>)
    /\ Edit([thisOptions EXCEPT !.kind = Some(jobKind), !.status = None], heap)

kind(jobKind) ==
    /\ Logged("kind", <<jobKind>>)
    /\ Edit([thisOptions EXCEPT !.kind = Some(jobKind)], heap)

status(jobStatus) ==
    /\ Logged("status", <<jobStatus>>)
    /\ Edit([thisOptions EXCEPT !.status = Some(jobStatus)], heap)

category(categoryName) ==
    /\ Logged("category", <<categoryName>>)
    /\ Edit([thisOptions EXCEPT !.category = Some(categoryName)], heap)

resetKeepsTags ==
    /\ Logged("reset", <<>>)
    /\ Edit([EmptyOptions EXCEPT !.tags = thisOptions.tags], heap)
reset ==
    /\ Logged("reset", <<>>)
    /\ Edit(EmptyOptions, heap)

\* mutant: the copy leaves out the category field
buildDropsCategory ==
    /\ CanEdit
    /\ Logged("build", <<>>)
    /\ built' = Some([thisOptions EXCEPT !.category = None])
    /\ builtValue' = Some(Resolve([thisOptions EXCEPT !.category = None], heap))
    /\ thrown' = NoError
    /\ returned' = "object"
    /\ UNCHANGED <<thisOptions, heap>>

\* build(): { ...this.options }, a copy of the fields of this.options
build ==
    /\ CanEdit
    /\ Logged("build", <<>>)
    /\ built' = Some(thisOptions)
    /\ builtValue' = Some(Resolve(thisOptions, heap))
    /\ thrown' = NoError
    /\ returned' = "object"
    /\ UNCHANGED <<thisOptions, heap>>

FilterInit ==
    /\ thisOptions = EmptyOptions
    /\ heap = <<>>
    /\ built = None
    /\ builtValue = None
    /\ log = <<>>
    /\ thrown = NoError
    /\ returned = "none"

\* ============================================ JobQueryBuilder execution
\* what an execution method's promise settled with
QPending == [kind |-> "pending", jobs |-> <<>>, pagination |-> None,
             count |-> None, error |-> NoError]
QJobs(jobs, pgn) == [QPending EXCEPT !.kind = "value", !.jobs = jobs,
                                     !.pagination = pgn]
QCount(n) == [QPending EXCEPT !.kind = "value", !.count = Some(n)]
QError(e) == [QPending EXCEPT !.kind = "error", !.error = e]

\* an invocation of a method with its locals and history; NotStarted is
\* one that has not been made yet
Invocation(m, at, cp, hm, aj, bf, dm, ww, pgn, dl, qr, ft, yl, ea) ==
    [method |-> m, qpc |-> at, currentPage |-> cp, hasMore |-> hm, allJobs |-> aj,
     buffer |-> bf, delayMs |-> dm, walkWake |-> ww, pagination |-> pgn,
     delays |-> dl, qresult |-> qr, fetched |-> ft, yielded |-> yl,
     extraArgs |-> ea]
NotStarted ==
    Invocation("none", "idle", 0, FALSE, <<>>, <<>>, 0, None, None, <<>>,
               QPending, <<>>, <<>>, <<>>)

QueryInit ==
    /\ method = "none"
    /\ qpc = "idle"
    /\ currentPage = 0
    /\ hasMore = FALSE
    /\ allJobs = <<>>
    /\ buffer = <<>>
    /\ delayMs = 0
    /\ walkWake = None
    /\ pagination = None
    /\ delays = <<>>
    /\ parked = NotStarted
    /\ qresult = QPending
    /\ fetched = <<>>
    /\ yielded = <<>>
    /\ extraArgs = <<>>

\* the locals of a walk over the pages
walkLocals == <<currentPage, hasMore, allJobs, buffer, delayMs, walkWake,
                pagination, delays>>

\* the arguments a caller passes to executeAll / stream: none, delayMs, or
\* delayMs and maxPages as the README documents them
WalkArgs == {<<>>, <<0>>, <<0, 1>>}
DelayArg(args) == IF Len(args) >= 1 THEN args[1] ELSE DefaultDelayMs
ExtraArgs(args) == IF Len(args) >= 1 THEN Tail(args) ELSE <<>>

\* the builder is still being set up: no execution method has been called
SetupOpen == method = "none" /\ Len(log) < MaxSetup

\* build() may still follow the last call of the setup
SnapshotOpen == method = "none" /\ Len(log) <= MaxSetup

\* the method calls client.getJobs(o) and awaits it
Request(o) ==
    /\ getJobsCall(o)
    /\ fetched' = Append(fetched, o)
    /\ qpc' = "fetch"

\* { ...this.options, page: p }
WithPage(p) == [Resolve(thisOptions, heap) EXCEPT !.page = Some(p)]

\* execute(): return this.client.getJobs(this.options)
execute ==
    /\ method = "none"
    /\ method' = "execute"
    /\ Request(Resolve(thisOptions, heap))
    /\ UNCHANGED <<filterVars, totalPages, parked, walkLocals, qresult, yielded, extraArgs>>

\* the caller hands the object build() returned to client.getJobs
getJobsBuilt ==
    /\ method = "none"
    /\ IsSome(built)
    /\ method' = "getJobs"
    /\ Request(Resolve(Val(built), heap))
    /\ UNCHANGED <<filterVars, totalPages, parked, walkLocals, qresult, yielded, extraArgs>>

\* executeAndGetResults(): const { results } = await this.execute()
executeAndGetResults ==
    /\ method = "none"
    /\ method' = "executeAndGetResults"
    /\ Request(Resolve(thisOptions, heap))
    /\ UNCHANGED <<filterVars, totalPages, parked, walkLocals, qresult, yielded, extraArgs>>

\* mutant: count() asks for the page the filters hold
countKeepsPage ==
    /\ method = "none"
    /\ method' = "count"
    /\ Request(Resolve(thisOptions, heap))
    /\ UNCHANGED <<filterVars, totalPages, parked, walkLocals, qresult, yielded, extraArgs>>

\* mutant: count() stores page 0 in the filters before it asks
countSetsPage ==
    /\ method = "none"
    /\ method' = "count"
    /\ thisOptions' = [thisOptions EXCEPT !.page = Some(0)]
    /\ Request(WithPage(0))
    /\ UNCHANGED <<heap, built, builtValue, log, thrown, returned, totalPages, parked,
                   walkLocals, qresult, yielded, extraArgs>>

\* count(): await this.client.getJobs({ ...this.options, page: 0 })
count ==
    /\ method = "none"
    /\ method' = "count"
    /\ Request(WithPage(0))
    /\ UNCHANGED <<filterVars, totalPages, parked, walkLocals, qresult, yielded, extraArgs>>

\* what each one-call method makes of the value getJobs returned
MethodValue(m, v) ==
    CASE m = "count" -> QCount(Val(v.pagination).totalItems)
      [] m = "executeAndGetResults" -> QJobs(v.results, None)
      [] OTHER -> QJobs(v.results, v.pagination)

\* the awaited getJobs has settled: the method's promise settles with it
MethodReturn ==
    /\ qpc = "fetch"
    /\ pc = "returned"
    /\ method \in {"execute", "getJobs", "executeAndGetResults", "count"}
    /\ IF outcome.kind = "error"
       THEN qpc' = "failed" /\ qresult' = QError(outcome.error)
       ELSE qpc' = "done" /\ qresult' = MethodValue(method, outcome.value)
    /\ UNCHANGED <<clientVars, filterVars, totalPages, parked, method, walkLocals,
                   fetched, yielded, extraArgs>>

\* ---------------------------------------------------- executeAll, stream
\* executeAll(delayMs = 500): the body runs to its first await, the
\* getJobs call for page 0
executeAll(args) ==
    /\ method = "none"
    /\ method' = "executeAll"
    /\ delayMs' = DelayArg(args)
    /\ extraArgs' = ExtraArgs(args)
    /\ allJobs' = <<>>
    /\ currentPage' = 0
    /\ hasMore' = TRUE
    /\ Request(WithPage(0))
    /\ UNCHANGED <<filterVars, totalPages, parked, buffer, walkWake, delays,
                   pagination, qresult, yielded>>

\* mutant: stream() runs the generator body to its first await
streamEager(args) ==
    /\ method = "none"
    /\ method' = "stream"
    /\ delayMs' = DelayArg(args)
    /\ extraArgs' = ExtraArgs(args)
    /\ currentPage' = 0
    /\ hasMore' = TRUE
    /\ Request(WithPage(0))
    /\ UNCHANGED <<filterVars, totalPages, parked, allJobs, pagination, buffer,
                   walkWake, delays, qresult, yielded>>

\* stream(delayMs = 500): the generator object is made, its body not entered
stream(args) ==
    /\ method = "none"
    /\ method' = "stream"
    /\ qpc' = "start"
    /\ delayMs' = DelayArg(args)
    /\ extraArgs' = ExtraArgs(args)
    /\ UNCHANGED <<clientVars, filterVars, totalPages, parked, currentPage, hasMore,
                   allJobs, pagination, buffer, walkWake, delays, qresult, fetched,
                   yielded>>

\* mutant: the loop goes on while currentPage < totalPages
AfterPageOneMore(pgn, jobs) ==
    LET more == currentPage < pgn.totalPages IN
    /\ hasMore' = more
    /\ IF more /\ delayMs > 0
       THEN /\ qpc' = "delay"
            /\ walkWake' = Some(now + delayMs)
            /\ delays' = Append(delays, delayMs)
            /\ UNCHANGED <<clientVars, currentPage, qresult, fetched>>
       ELSE /\ currentPage' = currentPage + 1
            /\ walkWake' = None
            /\ UNCHANGED delays
            /\ IF more
               THEN Request(WithPage(currentPage + 1)) /\ UNCHANGED qresult
               ELSE /\ qpc' = "done"
                    /\ qresult' = QJobs(jobs, None)
                    /\ UNCHANGED <<clientVars, fetched>>

\* mutant: the delay does not depend on hasMore
AfterPageDelayLast(pgn, jobs) ==
    LET more == currentPage < pgn.totalPages - 1 IN
    /\ hasMore' = more
    /\ IF delayMs > 0
       THEN /\ qpc' = "delay"
            /\ walkWake' = Some(now + delayMs)
            /\ delays' = Append(delays, delayMs)
            /\ UNCHANGED <<clientVars, currentPage, qresult, fetched>>
       ELSE /\ currentPage' = currentPage + 1
            /\ walkWake' = None
            /\ UNCHANGED delays
            /\ IF more
               THEN Request(WithPage(currentPage + 1)) /\ UNCHANGED qresult
               ELSE /\ qpc' = "done"
                    /\ qresult' = QJobs(jobs, None)
                    /\ UNCHANGED <<clientVars, fetched>>

\* the end of the loop body, once the page's results are consumed: hasMore,
\* the delay, currentPage++, and the loop test; jobs is what the method
\* returns if the loop ends here
AfterPage(pgn, jobs) ==
    LET more == currentPage < pgn.totalPages - 1 IN
    /\ hasMore' = more
    /\ IF more /\ delayMs > 0
       THEN /\ qpc' = "delay"
            /\ walkWake' = Some(now + delayMs)
            /\ delays' = Append(delays, delayMs)
            /\ UNCHANGED <<clientVars, currentPage, qresult, fetched>>
       ELSE /\ currentPage' = currentPage + 1
            /\ walkWake' = None
            /\ UNCHANGED delays
            /\ IF more
               THEN Request(WithPage(currentPage + 1)) /\ UNCHANGED qresult
               ELSE /\ qpc' = "done"
                    /\ qresult' = QJobs(jobs, None)
                    /\ UNCHANGED <<clientVars, fetched>>

\* yield job: the generator hands over the next result and suspends
Yield(jobs) ==
    /\ yielded' = Append(yielded, jobs[1])
    /\ buffer' = Tail(jobs)
    /\ qpc' = "yield"
    /\ UNCHANGED <<clientVars, currentPage, hasMore, walkWake, delays, qresult, fetched>>

\* mutant: the generator requests the next page before it yields
StreamPageEager(results, pgn) ==
    /\ results # <<>>
    /\ yielded' = Append(yielded, results[1])
    /\ buffer' = Tail(results)
    /\ getJobsCall(WithPage(currentPage + 1))
    /\ fetched' = Append(fetched, WithPage(currentPage + 1))
    /\ qpc' = "yield"
    /\ UNCHANGED <<currentPage, hasMore, walkWake, delays, qresult>>

\* stream: a page has arrived, for (const job of results) starts
StreamPage(results, pgn) ==
    IF results # <<>>
    THEN Yield(results)
    ELSE AfterPage(pgn, <<>>) /\ UNCHANGED <<buffer, yielded>>

\* mutant: executeAll answers a failed page with the jobs it has so far
WalkResumePartial ==
    /\ qpc = "fetch"
    /\ pc = "returned"
    /\ method \in {"executeAll", "stream"}
    /\ IF outcome.kind = "error"
       THEN /\ IF method = "executeAll"
               THEN qpc' = "done" /\ qresult' = QJobs(allJobs, None)
               ELSE qpc' = "failed" /\ qresult' = QError(outcome.error)
            /\ UNCHANGED <<clientVars, walkLocals, fetched, yielded>>
       ELSE IF method = "executeAll"
       THEN /\ allJobs' = allJobs \o outcome.value.results
            /\ AfterPage(Val(outcome.value.pagination),
                         allJobs \o outcome.value.results)
            /\ UNCHANGED <<buffer, pagination, yielded>>
       ELSE /\ pagination' = outcome.value.pagination
            /\ StreamPage(outcome.value.results, Val(outcome.value.pagination))
            /\ UNCHANGED allJobs
    /\ UNCHANGED <<filterVars, totalPages, parked, method, delayMs, extraArgs>>

\* the awaited getJobs of a walk has settled
WalkResume ==
    /\ qpc = "fetch"
    /\ pc = "returned"
    /\ method \in {"executeAll", "stream"}
    /\ IF outcome.kind = "error"
       THEN /\ qpc' = "failed"
            /\ qresult' = QError(outcome.error)
            /\ UNCHANGED <<clientVars, walkLocals, fetched, yielded>>
       ELSE IF method = "executeAll"
       THEN /\ allJobs' = allJobs \o outcome.value.results
            /\ AfterPage(Val(outcome.value.pagination),
                         allJobs \o outcome.value.results)
            /\ UNCHANGED <<buffer, pagination, yielded>>
       ELSE /\ pagination' = outcome.value.pagination
            /\ StreamPage(outcome.value.results, Val(outcome.value.pagination))
            /\ UNCHANGED allJobs
    /\ UNCHANGED <<filterVars, totalPages, parked, method, delayMs, extraArgs>>

\* mutant: the generator starts at the page the filters hold
StreamNextFromFilterPage ==
    /\ method = "stream"
    /\ qpc \in {"start", "yield"}
    /\ IF qpc = "start"
       THEN LET first == IF IsSome(thisOptions.page) THEN Val(thisOptions.page) ELSE 0 IN
            /\ currentPage' = first
            /\ hasMore' = TRUE
            /\ Request(WithPage(first))
            /\ UNCHANGED <<buffer, walkWake, delays, qresult, yielded>>
       ELSE IF buffer # <<>>
       THEN Yield(buffer)
       ELSE /\ AfterPage(Val(pagination), <<>>)
            /\ UNCHANGED <<buffer, yielded>>
    /\ UNCHANGED <<filterVars, totalPages, parked, method, allJobs, pagination,
                   delayMs, extraArgs>>

\* the consumer asks for the next item: the generator runs to its next
\* yield, await or end
StreamNext ==
    /\ method = "stream"
    /\ qpc \in {"start", "yield"}
    /\ IF qpc = "start"
       THEN /\ currentPage' = 0
            /\ hasMore' = TRUE
            /\ Request(WithPage(0))
            /\ UNCHANGED <<buffer, walkWake, delays, qresult, yielded>>
       ELSE IF buffer # <<>>
       THEN Yield(buffer)
       ELSE /\ AfterPage(Val(pagination), <<>>)
            /\ UNCHANGED <<buffer, yielded>>
    /\ UNCHANGED <<filterVars, totalPages, parked, method, allJobs, pagination,
                   delayMs, extraArgs>>

\* the consumer stops at an item (break in for await): return() ends the
\* generator where it is suspended
StreamReturn ==
    /\ method = "stream"
    /\ qpc = "yield"
    /\ qpc' = "cancelled"
    /\ qresult' = QJobs(<<>>, None)
    /\ UNCHANGED <<clientVars, filterVars, totalPages, parked, method, walkLocals,
                   fetched, yielded, extraArgs>>

\* the delay between pages is over: currentPage++, next turn of the loop
DelayElapsed ==
    /\ qpc = "delay"
    /\ now >= Val(walkWake)
    /\ currentPage' = currentPage + 1
    /\ walkWake' = None
    /\ Request(WithPage(currentPage + 1))
    /\ UNCHANGED <<filterVars, totalPages, parked, method, hasMore, allJobs,
                   pagination, buffer, delayMs, delays, qresult, yielded, extraArgs>>

\* nothing happens until the delay between pages is over
ElapseDelay ==
    /\ qpc = "delay"
    /\ now < Val(walkWake)
    /\ now' = Val(walkWake)
    /\ UNCHANGED <<config, lastRequestTime, pc, call, attempt, wakeAt, timeoutId,
                   response, outcome, transport, trace, gateEntries, prevSent,
                   lastSent, httpCalls, calls, filterVars, queryVars>>

\* ------------------------------------------- two invocations, one builder
\* the invocation the caller is driving, as a value
ActiveInvocation ==
    Invocation(method, qpc, currentPage, hasMore, allJobs, buffer, delayMs, walkWake,
               pagination, delays, qresult, fetched, yielded, extraArgs)

\* the caller turns from the invocation it was driving, which awaits
\* nothing, to the other one: to a generator it holds suspended, to a method
\* that has ended, or to one it has not called yet
Switch ==
    /\ qpc \notin {"fetch", "delay"}
    /\ parked # ActiveInvocation
    /\ parked' = ActiveInvocation
    /\ method' = parked.method
    /\ qpc' = parked.qpc
    /\ currentPage' = parked.currentPage
    /\ hasMore' = parked.hasMore
    /\ allJobs' = parked.allJobs
    /\ buffer' = parked.buffer
    /\ delayMs' = parked.delayMs
    /\ walkWake' = parked.walkWake
    /\ pagination' = parked.pagination
    /\ delays' = parked.delays
    /\ qresult' = parked.qresult
    /\ fetched' = parked.fetched
    /\ yielded' = parked.yielded
    /\ extraArgs' = parked.extraArgs
    /\ UNCHANGED <<clientVars, filterVars, totalPages>>

\* --------------------------------------------------------------- service
\* what the service may answer to the request in flight: the page asked
\* for, the same without its results field, or 503
RequestedPage == IF IsSome(call.options.page) THEN Val(call.options.page) ELSE 0
ServiceResponses ==
    { [status |-> 200, body |-> PageBody(RequestedPage, totalPages, w),
       retryAfter |-> None] : w \in BOOLEAN }
    \cup { [status |-> 503, body |-> "{}", retryAfter |-> None] }

\* a new client, a new builder, and a service whose listing is the one page
\* the body "jobs" describes
Init ==
    /\ ClientInit
    /\ FilterInit
    /\ QueryInit
    /\ GateInit
    /\ totalPages = Decode("jobs").pagination[1].totalPages

\* a builder filled and read by its caller, nothing executed
NextFilters ==
    \/ (\E v \in VolunteerInputs : volunteer(v)) /\ UNCHANGED <<clientVars, queryVars, callers>>
    \/ (\E n \in PageInputs : page(n)) /\ UNCHANGED <<clientVars, queryVars, callers>>
    \/ (\E t \in TagStrings : tagsString(t)) /\ UNCHANGED <<clientVars, queryVars, callers>>
    \/ (\E a \in TagArrays : tagsArray(a)) /\ UNCHANGED <<clientVars, queryVars, callers>>
    \/ (\E t \in AddedTags : addTag(t)) /\ UNCHANGED <<clientVars, queryVars, callers>>
    \/ (\E k \in KindInputs : kind(k)) /\ UNCHANGED <<clientVars, queryVars, callers>>
    \/ (\E st \in StatusInputs : status(st)) /\ UNCHANGED <<clientVars, queryVars, callers>>
    \/ (\E c \in CategoryInputs : category(c)) /\ UNCHANGED <<clientVars, queryVars, callers>>
    \/ reset /\ UNCHANGED <<clientVars, queryVars, callers>>
    \/ build /\ UNCHANGED <<clientVars, queryVars, callers>>

SpecFilters == Init /\ [][NextFilters]_vars

\* the tags filter alone: tags() with a string or an array, addTag() with
\* two different tags, reset() and build()
TagInputs == {"t3", "t4"}
NextTags ==
    \/ (\E t \in TagStrings : tagsString(t)) /\ UNCHANGED <<clientVars, queryVars, callers>>
    \/ (\E a \in TagArrays : tagsArray(a)) /\ UNCHANGED <<clientVars, queryVars, callers>>
    \/ (\E t \in TagInputs : addTag(t)) /\ UNCHANGED <<clientVars, queryVars, callers>>
    \/ reset /\ UNCHANGED <<clientVars, queryVars, callers>>
    \/ build /\ UNCHANGED <<clientVars, queryVars, callers>>

SpecTags == Init /\ [][NextTags]_vars

\* ------------------------------------------- specifications of a query
\* a client that does not retry (maxRetries: 0; the transport's retries are
\* the subject of Spec), a new builder, a service with any listing
InitQuery ==
    /\ ClientInit
    /\ maxRetries = 0
    /\ FilterInit
    /\ QueryInit
    /\ GateInit
    /\ totalPages \in 0..MaxPages

\* one call never waits at the rate-limit gate, and only an empty and a
\* full listing differ for it
InitOneCall ==
    /\ InitQuery
    /\ requestDelay = 0
    /\ totalPages \in {0, MaxPages}

\* the builder is set up, then one of the one-call methods runs
NextQuery ==
    \/ (\E v \in VolunteerInputs : volunteer(v)) /\ SetupOpen /\ UNCHANGED <<clientVars, queryVars, callers>>
    \/ (\E n \in PageInputs : page(n)) /\ SetupOpen /\ UNCHANGED <<clientVars, queryVars, callers>>
    \/ (\E t \in TagStrings : tagsString(t)) /\ SetupOpen /\ UNCHANGED <<clientVars, queryVars, callers>>
    \/ (\E a \in TagArrays : tagsArray(a)) /\ SetupOpen /\ UNCHANGED <<clientVars, queryVars, callers>>
    \/ (\E t \in AddedTags : addTag(t)) /\ SetupOpen /\ UNCHANGED <<clientVars, queryVars, callers>>
    \/ (\E k \in KindInputs : kind(k)) /\ SetupOpen /\ UNCHANGED <<clientVars, queryVars, callers>>
    \/ (\E st \in StatusInputs : status(st)) /\ SetupOpen /\ UNCHANGED <<clientVars, queryVars, callers>>
    \/ (\E c \in CategoryInputs : category(c)) /\ SetupOpen /\ UNCHANGED <<clientVars, queryVars, callers>>
    \/ reset /\ SetupOpen /\ UNCHANGED <<clientVars, queryVars, callers>>
    \/ build /\ SnapshotOpen /\ UNCHANGED <<clientVars, queryVars, callers>>
    \/ execute /\ UNCHANGED callers
    \/ getJobsBuilt /\ UNCHANGED callers
    \/ executeAndGetResults /\ UNCHANGED callers
    \/ count /\ UNCHANGED callers
    \/ MethodReturn /\ UNCHANGED callers
    \/ (\E r \in ServiceResponses : FetchResolve(r)) /\ UNCHANGED <<filterVars, queryVars, callers>>
    \/ FetchReject /\ UNCHANGED <<filterVars, queryVars, callers>>
    \/ FetchAbort /\ UNCHANGED <<filterVars, queryVars, callers>>
    \/ Elapse /\ UNCHANGED <<filterVars, queryVars, callers>>

SpecQuery == InitOneCall /\ [][NextQuery]_vars

\* the builder is set up and maybe read with build(), then one execution
\* method runs: executeAll or stream walks the pages, the others make
\* their one call
NextWalk ==
    \/ (\E n \in PageInputs : page(n)) /\ SetupOpen /\ UNCHANGED <<clientVars, queryVars, callers>>
    \/ (\E c \in CategoryInputs : category(c)) /\ SetupOpen /\ UNCHANGED <<clientVars, queryVars, callers>>
    \/ build /\ SnapshotOpen /\ UNCHANGED <<clientVars, queryVars, callers>>
    \/ execute /\ UNCHANGED callers
    \/ executeAndGetResults /\ UNCHANGED callers
    \/ count /\ UNCHANGED callers
    \/ MethodReturn /\ UNCHANGED callers
    \/ \E args \in WalkArgs : executeAll(args) /\ UNCHANGED callers
    \/ \E args \in WalkArgs : stream(args) /\ UNCHANGED callers
    \/ StreamNext /\ UNCHANGED callers
    \/ StreamReturn /\ UNCHANGED callers
    \/ WalkResume /\ UNCHANGED callers
    \/ DelayElapsed /\ UNCHANGED callers
    \/ ElapseDelay /\ UNCHANGED callers
    \/ (\E r \in ServiceResponses : FetchResolve(r)) /\ UNCHANGED <<filterVars, queryVars, callers>>
    \/ FetchReject /\ UNCHANGED <<filterVars, queryVars, callers>>
    \/ FetchAbort /\ UNCHANGED <<filterVars, queryVars, callers>>
    \/ GateElapsed /\ UNCHANGED <<filterVars, queryVars, callers>>
    \/ Elapse /\ UNCHANGED <<filterVars, queryVars, callers>>

SpecWalk == InitQuery /\ [][NextWalk]_vars

\* the caller keeps the builder and goes on calling it while a walk it
\* started is at an await, in its delay, or suspended at a yield
EditOpen == Len(log) < MaxSetup /\ qpc \notin {"done", "failed", "cancelled"}

NextEditedWalk ==
    \/ (\E c \in CategoryInputs : category(c)) /\ EditOpen /\ UNCHANGED <<clientVars, queryVars, callers>>
    \/ reset /\ EditOpen /\ UNCHANGED <<clientVars, queryVars, callers>>
    \/ \E args \in WalkArgs : executeAll(args) /\ UNCHANGED callers
    \/ \E args \in WalkArgs : stream(args) /\ UNCHANGED callers
    \/ StreamNext /\ UNCHANGED callers
    \/ WalkResume /\ UNCHANGED callers
    \/ DelayElapsed /\ UNCHANGED callers
    \/ ElapseDelay /\ UNCHANGED callers
    \/ (\E r \in ServiceResponses : FetchResolve(r)) /\ UNCHANGED <<filterVars, queryVars, callers>>
    \/ FetchReject /\ UNCHANGED <<filterVars, queryVars, callers>>
    \/ FetchAbort /\ UNCHANGED <<filterVars, queryVars, callers>>
    \/ GateElapsed /\ UNCHANGED <<filterVars, queryVars, callers>>
    \/ Elapse /\ UNCHANGED <<filterVars, queryVars, callers>>

SpecEditedWalk == InitQuery /\ [][NextEditedWalk]_vars

Next ==
    \/ (\E o \in OptionInputs : getJobs(o)) /\ UNCHANGED <<filterVars, queryVars, callers>>
    \/ (\E id \in JobIds : getJobById(id)) /\ UNCHANGED <<filterVars, queryVars, callers>>
    \/ getTags /\ UNCHANGED <<filterVars, queryVars, callers>>
    \/ GateElapsed /\ UNCHANGED <<filterVars, queryVars, callers>>
    \/ (\E r \in Responses : FetchResolve(r)) /\ UNCHANGED <<filterVars, queryVars, callers>>
    \/ FetchReject /\ UNCHANGED <<filterVars, queryVars, callers>>
    \/ FetchAbort /\ UNCHANGED <<filterVars, queryVars, callers>>
    \/ BackoffElapsed /\ UNCHANGED <<filterVars, queryVars, callers>>
    \/ Tick /\ UNCHANGED <<filterVars, queryVars, callers>>
    \/ Elapse /\ UNCHANGED <<filterVars, queryVars, callers>>

Spec == Init /\ [][Next]_vars

\* ------------------------------------------------- two walks on one builder
\* walks without a delay between pages
NoDelayArgs == {<<0>>}

\* a listing of at least one page, a client that never holds a call back
InitTwoWalks ==
    /\ InitQuery
    /\ requestDelay = 0
    /\ totalPages \in 1..MaxPages

\* the caller sets the page, starts walks and drives them in turn
NextTwoWalks ==
    \/ (\E n \in PageInputs : page(n)) /\ SetupOpen /\ UNCHANGED <<clientVars, queryVars, callers>>
    \/ (\E args \in NoDelayArgs : executeAll(args)) /\ UNCHANGED callers
    \/ (\E args \in NoDelayArgs : stream(args)) /\ UNCHANGED callers
    \/ StreamNext /\ UNCHANGED callers
    \/ StreamReturn /\ UNCHANGED callers
    \/ WalkResume /\ UNCHANGED callers
    \/ Switch /\ UNCHANGED callers
    \/ (\E r \in ServiceResponses : FetchResolve(r)) /\ UNCHANGED <<filterVars, queryVars, callers>>

SpecTwoWalks == InitTwoWalks /\ [][NextTwoWalks]_vars

\* ------------------------------------------------- one getJobs on the wire
\* Retry-After as a service may send it: absent, a number of seconds, an
\* empty value, and the first characters of an HTTP-date
WireRetryAfter == {None, Some(<<"1">>), Some(<<>>), Some(<<"W", "e", "d">>)}

\* what the service may answer to the request in flight: the requested page
\* of its listing in every shape of body, bodies that are not a listing,
\* and refusals with and without a Retry-After header
WireBodies ==
    {"garbage", "{}"}
    \cup { PageBody(RequestedPage, totalPages, w) : w \in BOOLEAN }
    \cup { ShapedBody(shape, RequestedPage, totalPages) : shape \in Shapes }
WireResponses ==
    [status : {200}, body : WireBodies, retryAfter : {None}]
    \cup [status : {429, 503}, body : {"{}"}, retryAfter : WireRetryAfter]

\* a new client with any retry budget, and a service with any listing
InitWire ==
    /\ ClientInit
    /\ FilterInit
    /\ QueryInit
    /\ GateInit
    /\ totalPages \in 0..MaxPages

\* one getJobs call from its entry to its return
NextWire ==
    \/ (\E o \in OptionInputs : calls = 0 /\ getJobs(o)) /\ UNCHANGED <<filterVars, queryVars, callers>>
    \/ GateElapsed /\ UNCHANGED <<filterVars, queryVars, callers>>
    \/ (\E r \in WireResponses : FetchResolve(r)) /\ UNCHANGED <<filterVars, queryVars, callers>>
    \/ FetchReject /\ UNCHANGED <<filterVars, queryVars, callers>>
    \/ FetchAbort /\ UNCHANGED <<filterVars, queryVars, callers>>
    \/ BackoffElapsed /\ UNCHANGED <<filterVars, queryVars, callers>>
    \/ Elapse /\ UNCHANGED <<filterVars, queryVars, callers>>

SpecWire == InitWire /\ [][NextWire]_vars

\* the same call on a runtime that keeps its promises: a pending fetch
\* settles or is aborted, a timer that is due fires, time goes on to the
\* next timer
FetchEnds ==
    /\ \/ \E r \in WireResponses : FetchResolve(r)
       \/ FetchReject
       \/ FetchAbort
    /\ UNCHANGED <<filterVars, queryVars, callers>>
WaitEnds ==
    /\ GateElapsed \/ BackoffElapsed
    /\ UNCHANGED <<filterVars, queryVars, callers>>
TimePasses == Elapse /\ UNCHANGED <<filterVars, queryVars, callers>>

SpecWireLive ==
    /\ InitWire
    /\ [][NextWire]_vars
    /\ WF_vars(FetchEnds)
    /\ WF_vars(WaitEnds)
    /\ WF_vars(TimePasses)

\* ------------------------------------------ several callers at the gate
\* calls are started on one client at any time, none awaited
NextGate ==
    \/ (\E p \in CallerIds : waitForRateLimitBy(p)) /\ UNCHANGED gateFrame
    \/ (\E p \in CallerIds : waitForRateLimitResumed(p)) /\ UNCHANGED gateFrame
    \/ GateTick /\ UNCHANGED gateFrame

SpecGate == Init /\ [][NextGate]_vars

\* ================================================================ claims
Last(seq) == seq[Len(seq)]
Kinds(seq) == { seq[i].kind : i \in 1..Len(seq) }
Is429(e) == e.kind = "response" /\ e.status = Some(429)
Is5xx(e) == e.kind = "response" /\ Val(e.status) >= 500 /\ Val(e.status) <= 599
\* the accessor call has reached the transport
Reached == call.op # "none" /\ gateEntries > 0
\* the current pass is the last one the budget allows
Exhausted == Len(trace) = maxRetries + 1

\* C1: whatever mix of 429 responses, 5xx responses and network failures a
\* request meets, it sends at most maxRetries + 1 HTTP calls, and that
\* number is fixed by the one attempt counter: attempt never passes
\* maxRetries and the calls sent are attempt + 1 (attempt while the
\* pacing gate still holds the next one back).
C1_SharedRetryBudget ==
    /\ httpCalls <= maxRetries + 1
    /\ Len(trace) <= maxRetries + 1
    /\ Reached =>
         /\ attempt <= maxRetries
         /\ httpCalls = IF pc = "gateWait" THEN attempt ELSE attempt + 1

\* C1 witness: a request with maxRetries = 2 that met a 429, then a 5xx,
\* then a network failure and has used up its three attempts.
C1_Witness ==
    /\ maxRetries = 2
    /\ pc = "returned"
    /\ httpCalls = 3
    /\ Len(trace) = 3
    /\ Is429(trace[1])
    /\ Is5xx(trace[2])
    /\ trace[3].kind = "failure"

\* C2: when every attempt of a request was answered 429 and the request has
\* ended, exactly maxRetries + 1 attempts were made and the accessor threw
\* APIError with status 429 and the raw body of the last response.
C2_RateLimitExhausted ==
    (/\ pc = "returned"
     /\ trace # <<>>
     /\ \A i \in 1..Len(trace) : Is429(trace[i]))
    => /\ Len(trace) = maxRetries + 1
       /\ httpCalls = maxRetries + 1
       /\ response.status = 429
       /\ outcome = Thrown(APIError(429, response.body))

\* C2 witness: maxRetries = 2, three 429 answers, the request has failed.
C2_Witness ==
    /\ maxRetries = 2
    /\ pc = "returned"
    /\ Len(trace) = 3
    /\ \A i \in 1..3 : Is429(trace[i])
    /\ outcome.error.type = "APIError"

\* C3: an attempt that timed out is the last attempt of its request, on the
\* first attempt and on a retry alike: the request has ended with a
\* NetworkError even when attempt < maxRetries.
C3_TimeoutIsFatal ==
    \A i \in 1..Len(trace) :
        trace[i].kind = "timeout" =>
            /\ i = Len(trace)
            /\ pc = "returned"
            /\ httpCalls = i
            /\ outcome = Thrown(NetworkError(NoCause))

\* C3 witness: a timeout on the second attempt while one retry was left.
C3_Witness ==
    /\ maxRetries = 2
    /\ Len(trace) = 2
    /\ trace[2].kind = "timeout"
    /\ attempt = 1
    /\ outcome.error.type = "NetworkError"

\* C4: after a 5xx answer the request is retried while budget remains; with
\* the budget exhausted the transport returns the response and the accessor
\* throws APIError with the status and the raw body of that response.
C4_ServerErrorExhausted ==
    (trace # <<>> /\ Is5xx(Last(trace))) =>
        IF Exhausted
        THEN /\ pc = "returned"
             /\ transport = "return"
             /\ outcome = Thrown(APIError(response.status, response.body))
             /\ Some(response.status) = Last(trace).status
        ELSE /\ pc # "returned"
             /\ transport = "none"

\* C4 witness: getJobById got a 5xx on its last allowed attempt.
C4_Witness ==
    /\ call.op = "getJobById"
    /\ maxRetries = 1
    /\ Len(trace) = 2
    /\ Is5xx(trace[2])
    /\ outcome.error.statusCode = Some(503)

\* C5: after a network failure that is not a timeout the request waits and
\* retries while attempt < maxRetries; with the budget exhausted it fails
\* with a NetworkError whose cause is the underlying failure.
C5_NetworkFailure ==
    (trace # <<>> /\ Last(trace).kind = "failure") =>
        IF Exhausted
        THEN /\ pc = "returned"
             /\ outcome = Thrown(NetworkError("TypeError"))
        ELSE /\ pc \in {"backoff", "gateWait", "fetching"}
             /\ pc = "backoff" => IsSome(wakeAt) /\ attempt = Len(trace) - 1
             /\ pc # "backoff" => attempt = Len(trace)

\* C5 witness: every attempt failed at network level and the budget is spent.
C5_Witness ==
    /\ maxRetries = 2
    /\ pc = "returned"
    /\ Len(trace) = 3
    /\ Kinds(trace) = {"failure"}
    /\ outcome.error.cause = "TypeError"

\* a response status that is not 2xx, not 429 and not 5xx
IsOtherFailure(e) ==
    /\ e.kind = "response"
    /\ Val(e.status) < 200 \/ Val(e.status) > 299
    /\ Val(e.status) # 429
    /\ Val(e.status) < 500 \/ Val(e.status) > 599

\* C6 as stated: a non-2xx answer other than 429 and 5xx ends the request
\* at once, whatever budget remains, and the accessor throws APIError with
\* that status.
C6_Original ==
    (trace # <<>> /\ IsOtherFailure(Last(trace))) =>
        /\ pc = "returned"
        /\ transport = "return"
        /\ outcome = Thrown(APIError(response.status, response.body))

\* C6 amended: a non-2xx answer other than 429 and 5xx ends the request at
\* once, whatever budget remains, and the accessor throws APIError with that
\* status, except that getJobById returns null on a 404.
C6_NoRetryOnOtherStatus ==
    (trace # <<>> /\ IsOtherFailure(Last(trace))) =>
        /\ pc = "returned"
        /\ transport = "return"
        /\ Some(response.status) = Last(trace).status
        /\ IF call.op = "getJobById" /\ response.status = 404
           THEN outcome = ReturnedNull
           ELSE outcome = Thrown(APIError(response.status, response.body))

\* C6 witness: a 400 on the first attempt of a request that had two
\* retries left.
C6_Witness ==
    /\ maxRetries = 2
    /\ trace = <<[kind |-> "response", status |-> Some(400)]>>
    /\ pc = "returned"
    /\ outcome.error.statusCode = Some(400)

\* C7: used sequentially, the client sends any two consecutive HTTP calls
\* (first attempts and retries of any accessor) at least requestDelay
\* milliseconds apart, and every call sent has passed the pacing gate.
C7_Pacing ==
    /\ (IsSome(prevSent) /\ IsSome(lastSent)) =>
          Val(lastSent) - Val(prevSent) >= requestDelay
    /\ httpCalls <= gateEntries
    /\ pc = "fetching" => httpCalls = gateEntries /\ lastSent = Some(lastRequestTime)

\* C7 witness: the first attempt of a second accessor call was held back
\* by the gate and left exactly requestDelay after the previous HTTP call.
C7_Witness ==
    /\ requestDelay > 0
    /\ calls = 2
    /\ httpCalls = 1
    /\ pc = "fetching"
    /\ IsSome(prevSent)
    /\ Val(lastSent) - Val(prevSent) = requestDelay

\* the 24 hexadecimal characters of an ObjectId
HexDigits == {"0", "1", "2", "3", "4", "5", "6", "7", "8", "9"} \cup
             {"a", "b", "c", "d", "e", "f"} \cup {"A", "B", "C", "D", "E", "F"}
Malformed(id) == Len(id) # 24 \/ \E i \in 1..Len(id) : id[i] \notin HexDigits

\* C8: getJobById with a string that is not exactly 24 hexadecimal
\* characters has failed with ValidationError without entering the pacing
\* gate and without any HTTP call.
C8_MalformedIdFailsFast ==
    (call.op = "getJobById" /\ Malformed(call.jobId)) =>
        /\ pc = "returned"
        /\ outcome = Thrown(ValidationError)
        /\ httpCalls = 0
        /\ gateEntries = 0
        /\ trace = <<>>

\* C8 witness: getJobById was called with 25 hexadecimal characters.
C8_Witness ==
    /\ call.op = "getJobById"
    /\ Len(call.jobId) = 25
    /\ outcome.error.type = "ValidationError"

\* C9: a 404 is "absent" exactly for getJobById: it returns null on a 404,
\* unretried, and throws APIError on every other non-2xx answer it ends
\* with; getJobs and getTags throw APIError with status 404 on a 404 and
\* never return null.
C9_NotFound ==
    /\ (trace # <<>> /\ Last(trace) = [kind |-> "response", status |-> Some(404)]) =>
          /\ pc = "returned"
          /\ IF call.op = "getJobById"
             THEN outcome = ReturnedNull
             ELSE outcome = Thrown(APIError(404, response.body))
    /\ (pc = "returned" /\ call.op = "getJobById" /\ transport # "none"
        /\ response # NoResponse /\ ~Ok(response) /\ response.status # 404) =>
          outcome = Thrown(APIError(response.status, response.body))
    /\ outcome.kind = "null" => call.op = "getJobById" /\ response.status = 404

\* C9 witness: getJobById got a 404 on its first attempt, with retries left.
C9_Witness ==
    /\ call.op = "getJobById"
    /\ maxRetries = 2
    /\ Len(trace) = 1
    /\ response.status = 404
    /\ outcome.kind = "null"

\* C10: getJobs with a page below 0 has failed with ValidationError without
\* entering the pacing gate and without any HTTP call.
C10_NegativePageFailsFast ==
    (call.op = "getJobs" /\ IsSome(call.options.page) /\ Val(call.options.page) < 0) =>
        /\ pc = "returned"
        /\ outcome = Thrown(ValidationError)
        /\ httpCalls = 0
        /\ gateEntries = 0
        /\ trace = <<>>

\* C10 witness: getJobs was called with page -1 and failed.
C10_Witness ==
    /\ call.op = "getJobs"
    /\ call.options.page = Some(-1)
    /\ outcome.error.type = "ValidationError"

\* ------------------------------------------------------------------ C11
\* the last builder call was page() with a negative page number
NegativePageCall ==
    /\ log # <<>>
    /\ Last(log).op = "page"
    /\ \E n \in PageInputs : n < 0 /\ Last(log).arg = <<ToString(n)>>

\* C11: a negative page index is rejected with an error of kind
\* ValidationError on every public entry point that accepts a page, the
\* builder's page() setter included.  (The client's getJobs half is
\* C10_NegativePageFailsFast; this is the builder's half.)
C11_NegativePageIsValidationError ==
    NegativePageCall => thrown.type = "ValidationError"

\* ------------------------------------------------------------------ C12
\* C12: every failure surfaced by getJobs, getJobById or getTags is one of
\* ValidationError, APIError and NetworkError, whatever the transport did
\* (any status, timeout, network failure, unparsable or misshapen body).
C12_ErrorKindsAreClosed ==
    outcome.kind = "error" => outcome.error.type \in LibraryErrors

\* C12 witness: a 2xx response whose body does not parse; the SyntaxError of
\* response.json() surfaces wrapped in a NetworkError.
C12_Witness ==
    /\ pc = "returned"
    /\ trace # <<>>
    /\ Last(trace).kind = "response"
    /\ Last(trace).status = Some(200)
    /\ outcome = Thrown(NetworkError("SyntaxError"))

\* ------------------------------------------------------------------ C13
\* C13: a snapshot returned by build() is never changed by a later call on
\* the builder: read through the heap now, the snapshot has the fields and
\* the tags it had when build() returned it.
C13_SnapshotIsIsolated ==
    IsSome(built) => Resolve(Val(built), heap) = Val(builtValue)

\* ------------------------------------------------------------------ C14
\* the calls before index i are all setters, at least one of them
SettersBefore(i) ==
    /\ i > 1
    /\ \A j \in 1..(i - 1) : log[j].op \notin {"reset", "build"}

\* C14: after any sequence of setter calls reset() leaves this.options empty,
\* and a build() that follows it returns an object with no filter field set.
C14_ResetEmpties ==
    /\ (log # <<>> /\ Last(log).op = "reset") => Resolve(thisOptions, heap) = EmptyOptions
    /\ \A i \in 1..Len(log) :
          (i = Len(log) /\ i > 1 /\ log[i].op = "build" /\ log[i - 1].op = "reset")
              => built = Some(EmptyOptions) /\ builtValue = Some(EmptyOptions)

C14_Witness ==
    /\ Len(log) >= 3
    /\ SettersBefore(Len(log) - 1)
    /\ \E j \in 1..Len(log) : log[j].op \in {"tags", "addTag"}
    /\ log[Len(log) - 1].op = "reset"
    /\ Last(log).op = "build"
    /\ builtValue = Some(EmptyOptions)

\* ------------------------------------------------------------------ C15
\* C15: after the same setter calls, getJobs(build()) and execute() issue a
\* request with the same query parameters: whichever of the two was called
\* right after a build(), its request carries the parameters of the built
\* object and the parameters of this.options.
C15_BuildRoundTrip ==
    (/\ method \in {"execute", "getJobs"}
     /\ log # <<>>
     /\ Last(log).op = "build")
        => /\ call.op = "getJobs"
           /\ call.url.query = QueryParams(Val(builtValue))
           /\ call.url.query = QueryParams(Resolve(thisOptions, heap))

\* C15 witness: .category('DESIGNER').volunteer(true).build() handed to
\* getJobs; the request has left with both parameters.
C15_Witness ==
    /\ method = "getJobs"
    /\ Len(log) = 3
    /\ log[1].op = "category"
    /\ log[2] = [op |-> "volunteer", arg |-> <<"TRUE">>]
    /\ log[3].op = "build"
    /\ pc = "fetching"
    /\ call.url.query = << <<"volunteer", <<"true">>>>, <<"category", <<"DESIGNER">>>> >>

\* ------------------------------------------------------------------ C16
\* the jobs of pages 0 .. n-1 of the listing, in page order
RECURSIVE AllItems(_)
AllItems(n) == IF n = 0 THEN <<>> ELSE AllItems(n - 1) \o PageJobs(n - 1)

IsWalk == method \in {"executeAll", "stream"}

\* C16: against a service that reports a constant totalPages = T, executeAll
\* and stream request pages 0, 1, ..., T-1 in that order and never more (T
\* fetches when the walk ends for T >= 1, one fetch for T = 0); executeAll
\* returns, and stream has yielded, the jobs of those pages in page order.
C16_WalkStopsAtLastPage ==
    IsWalk =>
        /\ \A i \in 1..Len(fetched) : fetched[i].page = Some(i - 1)
        /\ Len(fetched) <= Max(totalPages, 1)
        /\ qpc = "done" =>
              /\ Len(fetched) = Max(totalPages, 1)
              /\ method = "executeAll" => qresult = QJobs(AllItems(totalPages), None)
              /\ method = "stream" => yielded = AllItems(totalPages)

\* C16 witness: executeAll has walked a listing of MaxPages pages to its end.
C16_Witness ==
    /\ method = "executeAll"
    /\ qpc = "done"
    /\ totalPages = MaxPages
    /\ Len(fetched) = MaxPages
    /\ Len(qresult.jobs) = TotalItems(MaxPages)

\* ------------------------------------------------------------------ C17
\* C17: executeAll(delayMs, maxPages) and stream(delayMs, maxPages) fetch at
\* most maxPages pages, even when the service reports more.
C17_MaxPagesBoundsTheWalk ==
    (IsWalk /\ extraArgs # <<>>) => Len(fetched) <= extraArgs[1]

\* ------------------------------------------------------------------ C18
\* C18: when the consumer of stream() stops on an item, no further page is
\* fetched: the pages requested are those up to the page of that item, no
\* request is in flight, and stopping on the first item of a listing (of 3
\* pages, or any number) leaves exactly one page fetch.
C18_NoFetchAfterStop ==
    qpc = "cancelled" =>
        /\ pc = "returned"
        /\ Len(fetched) = currentPage + 1
        /\ \A i \in 1..Len(fetched) : Val(fetched[i].page) <= currentPage
        /\ \E k \in 1..Len(PageJobs(currentPage)) :
              Last(yielded) = PageJobs(currentPage)[k]
        /\ Len(yielded) = 1 => Len(fetched) = 1

\* C18 witness: the consumer stopped on the first item of a 3-page listing.
C18_Witness ==
    /\ qpc = "cancelled"
    /\ totalPages = 3
    /\ Len(yielded) = 1
    /\ Len(fetched) = 1

\* ------------------------------------------------------------------ C19
\* C19: count() makes exactly one getJobs call, with page forced to 0 and
\* every other filter as the builder holds it, and returns the totalItems
\* of that response's pagination.
C19_CountOneCallPageZero ==
    method = "count" =>
        /\ calls = 1
        /\ Len(fetched) = 1
        /\ call.options = [Resolve(thisOptions, heap) EXCEPT !.page = Some(0)]
        /\ fetched[1] = call.options
        /\ qpc = "done" =>
              /\ response.status = 200
              /\ qresult = QCount(Val(Decode(response.body).pagination).totalItems)
              /\ qresult.count = Some(TotalItems(totalPages))

\* C19 witness: the filters hold page 1 and a category, the listing has
\* MaxPages pages, and count() has returned its total.
C19_Witness ==
    /\ method = "count"
    /\ qpc = "done"
    /\ thisOptions.page = Some(1)
    /\ IsSome(thisOptions.category)
    /\ totalPages = MaxPages
    /\ qresult.count = Some(TotalItems(MaxPages))

\* ------------------------------------------------------------------ C20
\* C20: count() depends only on the pagination's totalItems: whenever the
\* service answered 200 with a body that has a pagination, count() returns
\* that totalItems, whatever the results field holds.
C20_CountIgnoresResults ==
    (/\ method = "count"
     /\ qpc \in {"done", "failed"}
     /\ response.status = 200
     /\ IsSome(Decode(response.body).pagination))
        => qresult = QCount(Val(Decode(response.body).pagination).totalItems)

\* ------------------------------------------------------------------ C22
\* this step is a page(n) call with n < 0
NegativePageStep ==
    \E n \in PageInputs :
        n < 0 /\ log' = Append(log, [op |-> "page", arg |-> <<ToString(n)>>])

\* C22: the page a builder holds is always unset or >= 0, and a page(n)
\* call with n < 0 fails and leaves the FilterState as it was.
C22_PageNeverNegative ==
    /\ [](IsSome(thisOptions.page) => Val(thisOptions.page) >= 0)
    /\ [][NegativePageStep =>
            /\ thrown' # NoError
            /\ thisOptions' = thisOptions
            /\ heap' = heap]_vars

\* C22 witness: page(-1) was refused on a builder that holds filters,
\* among them a page.
C22_Witness ==
    /\ NegativePageCall
    /\ thrown # NoError
    /\ thisOptions.page = Some(1)
    /\ IsSome(thisOptions.tags)

\* the 2xx body in hand decodes to an object without a results field or
\* without a pagination field
LacksField(body) ==
    \/ body = "{}"
    \/ \E p \in 0..(MaxPages + 1), t \in 0..MaxPages :
          body \in {PageBody(p, t, FALSE), ShapedBody("noPagination", p, t)}
\* the 2xx body in hand is a listing page with both fields, in any encoding
\* of its results
FullPage(body) ==
    \E p \in 0..(MaxPages + 1), t \in 0..MaxPages :
        body \in {PageBody(p, t, TRUE), ShapedBody("object", p, t),
                  ShapedBody("objectReversed", p, t)}
GetJobsEnded == call.op = "getJobs" /\ pc = "returned" /\ response.status = 200

\* C21: a getJobs whose 2xx body decodes to an object without results or
\* without pagination has failed with ValidationError, with exactly the
\* HTTP attempts that ended before it and none after; a body with both
\* fields gives the jobs of the page in listing order, whether results is
\* an array or an object keyed "0".."n-1" (in any textual order).
C21_ShapeCheckAndNormalisation ==
    /\ [](GetJobsEnded /\ LacksField(response.body) =>
            /\ outcome = Thrown(ValidationError)
            /\ transport = "return"
            /\ httpCalls = Len(trace))
    /\ [](GetJobsEnded /\ FullPage(response.body) =>
            /\ outcome.kind = "value"
            /\ outcome.value.results = PageItems(RequestedPage, totalPages))
    /\ [][outcome.error.type = "ValidationError" =>
            httpCalls' = httpCalls /\ trace' = trace]_vars

\* C21 witness: after one retried 503 the second answer is a page without
\* pagination; the call has failed after those two attempts.
C21_Witness ==
    /\ GetJobsEnded
    /\ totalPages > 0
    /\ response.body = ShapedBody("noPagination", RequestedPage, totalPages)
    /\ Len(trace) = 2
    /\ httpCalls = 2
    /\ outcome = Thrown(ValidationError)

\* C23 (as stated): every Pagination record getJobs has returned has
\* page < totalPages when totalItems > 0.
C23_PageBelowTotalPages ==
    (call.op = "getJobs" /\ outcome.kind = "value"
        /\ Val(outcome.value.pagination).totalItems > 0) =>
        Val(outcome.value.pagination).page < Val(outcome.value.pagination).totalPages

\* retryDelay doubled a times
RECURSIVE Doubled(_, _)
Doubled(rd, a) == IF a = 0 THEN rd ELSE 2 * Doubled(rd, a - 1)
\* this step is fetchWithRetry arming a wait before a retry
ArmsRetry == pc = "fetching" /\ pc' = "backoff"
\* this step is the answer to a 429 that carries the header h
Answers429With(h) ==
    \E r \in WireResponses : r.status = 429 /\ r.retryAfter = h /\ FetchResolve(r)

\* C24: the wait armed before retry a + 1 (a = attempt, the number of HTTP
\* attempts that ended before this one) is retryDelay * 2^a after a 5xx
\* answer, a network failure, and a 429 without Retry-After header.
C24_BackoffDoubles ==
    /\ [](pc = "backoff" => attempt = Len(trace) - 1)
    /\ [][(ArmsRetry /\ (Is429(Last(trace')) => Answers429With(None))) =>
            wakeAt' = Some(now + Doubled(retryDelay, attempt))]_vars

\* C24 witness: the second retry is armed after two network failures,
\* with twice the wait of the first.
C24_Witness ==
    /\ pc = "backoff"
    /\ attempt = 1
    /\ Kinds(trace) = {"failure"}
    /\ retryDelay > 0
    /\ wakeAt = Some(now + 2 * retryDelay)

\* C25 (as stated): a retried 429 that carries a Retry-After header waits
\* the seconds the header holds, in milliseconds; the header of a retried
\* 5xx changes nothing.
C25_RetryAfterHonoured ==
    [][\A r \in WireResponses :
          (ArmsRetry /\ FetchResolve(r) /\ IsSome(r.retryAfter)) =>
              IF r.status = 429
              THEN /\ IsSome(ParseInt(Val(r.retryAfter)))
                   /\ wakeAt' = Some(now + Val(ParseInt(Val(r.retryAfter))) * MsPerSecond)
              ELSE wakeAt' = Some(now + Doubled(retryDelay, attempt))]_vars

\* when fetchWithRetry armed the wait in progress after a failure or a 5xx:
\* the moment the previous HTTP call completed
CompletedAt == Val(wakeAt) - Doubled(retryDelay, attempt)

\* C26 (as stated): a retry leaves at least requestDelay after the previous
\* HTTP call completed.
C26_MeasuredFromCompletion ==
    [][(pc = "backoff" /\ ~Is429(Last(trace)) /\ pc' = "fetching") =>
          now' - CompletedAt >= requestDelay]_vars

\* C26 (amended): the gate measures from the time the previous HTTP call
\* was sent: lastRequestTime is that time, a caller held at the gate is due
\* exactly requestDelay after it and has sent nothing yet, and the timestamp
\* changes only in the step that sends, at least requestDelay after its
\* previous value.
C26_MeasuredFromSend ==
    /\ [](IsSome(lastSent) => lastRequestTime = Val(lastSent))
    /\ [](pc = "gateWait" =>
            /\ wakeAt = Some(lastRequestTime + requestDelay)
            /\ httpCalls < gateEntries)
    /\ [][lastRequestTime' # lastRequestTime =>
            /\ pc' = "fetching"
            /\ lastRequestTime' = now
            /\ now - lastRequestTime >= requestDelay]_vars

\* C26 witness: a call is held at the gate some time after the previous
\* HTTP call was sent, due requestDelay after that send.
C26_Witness ==
    /\ pc = "gateWait"
    /\ IsSome(lastSent)
    /\ now > Val(lastSent)
    /\ wakeAt = Some(Val(lastSent) + requestDelay)

\* callers p and q are both suspended in the gate, neither timer being due
BothWaiting(p, q) ==
    /\ p # q
    /\ callers[p].pc = "waiting" /\ now < Val(callers[p].wakeAt)
    /\ callers[q].pc = "waiting" /\ now < Val(callers[q].wakeAt)
\* callers p and q have both been through the gate after waiting in it on
\* the same timestamp
BothThrough(p, q) ==
    /\ p # q
    /\ callers[p].pc = "sent" /\ callers[q].pc = "sent"
    /\ IsSome(callers[p].wakeAt) /\ IsSome(callers[q].wakeAt)
    /\ callers[p].read = callers[q].read

\* C27: the gate does not separate callers that are in it together: two
\* callers suspended in it before either timer is due have read the same
\* lastRequestTime and are due at the same instant, and two callers that
\* waited on the same timestamp were sent at the same time, that is less
\* than requestDelay apart.
C27_GateDoesNotSeparateCallers ==
    \A p, q \in CallerIds :
        /\ BothWaiting(p, q) =>
              /\ callers[p].read = callers[q].read
              /\ callers[p].wakeAt = callers[q].wakeAt
        /\ BothThrough(p, q) =>
              /\ callers[p].sentAt = callers[q].sentAt
              /\ Val(callers[p].sentAt) - Val(callers[q].sentAt) < requestDelay

\* C27 witness: two calls entered the gate at different times while a
\* third had just been sent; both read its timestamp and both were sent at
\* the same instant although requestDelay > 0.
C27_Witness ==
    \E p, q \in CallerIds :
        /\ BothThrough(p, q)
        /\ requestDelay > 0
        /\ callers[p].sentAt = callers[q].sentAt
        /\ Val(callers[p].sentAt) = Val(callers[p].read) + requestDelay

\* C28: an execution method never changes the FilterState: each of its
\* steps (the call, each resumption, each item handed over, the return, the
\* failure, the cancellation) leaves this.options and its tag array as they
\* were, so that in every state of a method started right after a build()
\* the filters are still the ones that build() returned.
C28_MethodsLeaveFilters ==
    /\ []((method # "none" /\ log # <<>> /\ Last(log).op = "build") =>
            Resolve(thisOptions, heap) = Val(builtValue))
    /\ [][method' # "none" => thisOptions' = thisOptions /\ heap' = heap]_vars

\* C28 witness: page(1), build(), then count() has returned after asking
\* for page 0; the filters still hold page 1.
C28_Witness ==
    /\ method = "count"
    /\ qpc = "done"
    /\ Len(log) = 2
    /\ log[1] = [op |-> "page", arg |-> <<"1">>]
    /\ log[2].op = "build"
    /\ fetched[1].page = Some(0)
    /\ thisOptions.page = Some(1)

\* C29: in a walk with delayMs > 0 every suspension lasts delayMs and lies
\* between two page fetches: the walk is suspended only after a page that is
\* not the last, every fetch after the first leaves such a suspension once
\* it is over, and a walk of k fetches has armed k - 1 delays when it is not
\* suspended (k while it is); a walk with delayMs = 0 arms none.
C29_DelayOnlyBetweenFetches ==
    /\ [](IsWalk =>
            /\ \A i \in 1..Len(delays) : delays[i] = delayMs /\ delayMs > 0
            /\ qpc = "delay" =>
                  /\ hasMore
                  /\ Len(fetched) < totalPages
                  /\ Len(delays) = Len(fetched)
            /\ (qpc # "delay" /\ fetched # <<>> /\ delayMs > 0) =>
                  Len(delays) = Len(fetched) - 1
            /\ delayMs = 0 => delays = <<>>)
    /\ [][(IsWalk /\ qpc # "delay" /\ qpc' = "delay") =>
            walkWake' = Some(now + delayMs)]_vars
    /\ [][(IsWalk /\ delayMs > 0 /\ fetched # <<>> /\ fetched' # fetched) =>
            qpc = "delay" /\ now >= Val(walkWake)]_vars

\* C29 witness: executeAll() with the default delay has walked a listing of
\* MaxPages pages to its end, with MaxPages - 1 delays.
C29_Witness ==
    /\ method = "executeAll"
    /\ qpc = "done"
    /\ delayMs = DefaultDelayMs
    /\ totalPages = MaxPages
    /\ Len(fetched) = MaxPages
    /\ Len(delays) = MaxPages - 1

\* the invocations of executeAll and stream alive on the builder
Walks == { w \in {ActiveInvocation, parked} : w.method \in {"executeAll", "stream"} }
\* the walk has asked for pages 0, 1, 2, ... in turn
FromPageZero(w) == \A i \in 1..Len(w.fetched) : w.fetched[i].page = Some(i - 1)
\* the walk's position is the page it asked for last
AtOwnPage(w) ==
    w.qpc \in {"fetch", "yield"} => w.currentPage = Len(w.fetched) - 1

\* C30: each invocation of executeAll or stream asks for pages 0, 1, 2, ...
\* in turn, whatever page the filters hold and whatever another invocation
\* on the same builder has done or is doing; its position is its own, and
\* no step of the invocation being driven changes the suspended one.
C30_WalksAreIndependent ==
    /\ [](\A w \in Walks : FromPageZero(w) /\ AtOwnPage(w))
    /\ [][\/ parked' = parked
          \/ parked' = ActiveInvocation /\ ActiveInvocation' = parked]_vars

\* C30 witness: with page 1 in the filters, a stream is held suspended at
\* an item of page 0 while an executeAll started after it has walked the
\* whole listing of MaxPages pages from page 0.
C30_Witness ==
    /\ thisOptions.page = Some(1)
    /\ totalPages = MaxPages
    /\ parked.method = "stream"
    /\ parked.qpc = "yield"
    /\ parked.currentPage = 0
    /\ Len(parked.fetched) = 1
    /\ method = "executeAll"
    /\ qpc = "done"
    /\ Len(fetched) = MaxPages
    /\ fetched[1].page = Some(0)

\* the fields of the FilterState, and the setter that writes each
Fields == {"volunteer", "page", "tags", "kind", "status", "category"}
FieldOf(op) == IF op = "addTag" THEN "tags" ELSE op
\* the filters as getJobs would read them now
Filters == Resolve(thisOptions, heap)
Setters == Fields \cup {"addTag"}
\* this step is a call of the builder method op
CallStep(op) == Len(log') = Len(log) + 1 /\ log'[Len(log')].op = op

\* C31: a call of a setter leaves every field of the FilterState but its
\* own as it was and, unless it throws, returns the builder it was called
\* on; a field that was set is unset only by reset().
C31_SettersChangeOwnField ==
    /\ [][\A op \in Setters : CallStep(op) =>
            /\ \A f \in Fields \ {FieldOf(op)} : Filters'[f] = Filters[f]
            /\ thrown' = NoError => returned' = "this"
            /\ thrown' # NoError => returned' = "none" /\ Filters' = Filters]_vars
    /\ [][(\E f \in Fields : IsSome(Filters[f]) /\ ~IsSome(Filters'[f])) =>
            CallStep("reset")]_vars

\* C31 witness: status, category and tags were set, then kind(); the three
\* are as they were and the call returned the builder.
C31_Witness ==
    /\ Len(log) = MaxOps
    /\ Last(log).op = "kind"
    /\ \A j \in 1..Len(log) : log[j].op \in {"status", "category", "tags", "kind"}
    /\ returned = "this"
    /\ Filters.kind = Some("TEAM")
    /\ Filters.status = Some("ACTIVE")
    /\ Filters.category = Some("DESIGNER")
    /\ IsSome(Filters.tags)

\* the calls made since the last reset() (since the start if there is none)
SinceReset ==
    LET resets == { j \in 1..Len(log) : log[j].op = "reset" }
        from == IF resets = {} THEN 0
                ELSE CHOOSE j \in resets : \A k \in resets : k <= j
    IN  SubSeq(log, from + 1, Len(log))
IsAddTag(e) == e.op = "addTag"
\* the tags handed to addTag since then, in call order
Added == LET added == SelectSeq(SinceReset, IsAddTag)
         IN  [i \in 1..Len(added) |-> added[i].arg[1]]
\* nothing but addTag (and build) was called since then
OnlyAddTag ==
    /\ Added # <<>>
    /\ \A i \in 1..Len(SinceReset) : SinceReset[i].op \in {"addTag", "build"}

C38_CallerArrayUntouched ==
    \A j \in 1..Len(log) :
        (/\ log[j].op = "tags"
         /\ log[j].arg \in TagArrays
         /\ \A k \in (j + 1)..Len(log) : log[k].op \in {"addTag", "build"}) =>
            heap[Val(thisOptions.tags).ref] = log[j].arg

\* a request is inside fetchWithRetry
InTransport == pc \in {"gateWait", "fetching", "backoff"}

\* C33: a request inside fetchWithRetry eventually leaves it, with a
\* response or an error, whatever the service answers, when every pending
\* fetch ends and every timer fires; the attempt number, which every retry
\* raises by one, never passes maxRetries.
C33_RequestTerminates ==
    /\ [](InTransport => attempt <= maxRetries /\ Len(trace) <= attempt + 1)
    /\ InTransport ~> (pc = "returned" /\ transport \in {"return", "throw"})

\* C33 witness: a request that was answered 503 on every attempt has ended
\* after its last retry, some time after it started.
C33_Witness ==
    /\ pc = "returned"
    /\ maxRetries = MaxRetriesBound
    /\ Len(trace) = MaxRetriesBound + 1
    /\ \A i \in 1..Len(trace) : trace[i].status = Some(503)
    /\ transport = "return"
    /\ now > lastRequestTime

\* C34: the abort timer is armed exactly while the HTTP call of an attempt
\* is pending; it is armed when the call is sent, for `timeout` from that
\* moment, so the waits before and after the call are not counted; and a
\* timeout is observed only for a pending call whose deadline has come.
C34_TimeoutCoversOnlyFetch ==
    /\ [](IsSome(timeoutId) <=> pc = "fetching")
    /\ [](pc = "fetching" => timeoutId = Some(lastRequestTime + timeout))
    /\ [][pc # "fetching" /\ pc' = "fetching" =>
            timeoutId' = Some(now' + timeout)]_vars
    /\ [][trace' # trace /\ Last(trace').kind = "timeout" =>
            /\ pc = "fetching"
            /\ now >= lastRequestTime + timeout]_vars

\* C34 witness: a request was answered on its second attempt, sent after a
\* backoff and a pacing wait that together outlasted the timeout, and no
\* attempt timed out.
C34_Witness ==
    /\ pc = "returned"
    /\ transport = "return"
    /\ Len(trace) = 2
    /\ \A i \in 1..2 : trace[i].kind = "response"
    /\ gateEntries = 2
    /\ requestDelay > 0
    /\ IsSome(prevSent)
    /\ Val(lastSent) - Val(prevSent) >= timeout
    /\ timeoutId = None

\* the getJobs call executeAll is waiting for has failed
PageFailed ==
    /\ method = "executeAll"
    /\ qpc = "fetch"
    /\ pc = "returned"
    /\ outcome.kind = "error"

\* C35: when the fetch of a page fails during executeAll, the next step of
\* executeAll rejects its promise with that error and with no jobs, whatever
\* it had accumulated; afterwards executeAll stays failed and no further
\* page is requested.
C35_ExecuteAllFailsWhole ==
    /\ [][PageFailed /\ qpc' # qpc =>
            /\ qpc' = "failed"
            /\ qresult' = QError(outcome.error)
            /\ qresult'.jobs = <<>>
            /\ fetched' = fetched]_vars
    /\ [][method = "executeAll" /\ qpc = "failed" =>
            /\ qpc' = "failed"
            /\ qresult' = qresult
            /\ fetched' = fetched
            /\ httpCalls' = httpCalls]_vars
    /\ [](method = "executeAll" /\ qpc = "done" => outcome.kind = "value")

\* C35 witness: executeAll has failed on its second page, with the jobs of
\* the first page accumulated.
C35_Witness ==
    /\ method = "executeAll"
    /\ qpc = "failed"
    /\ Len(fetched) = 2
    /\ allJobs # <<>>
    /\ qresult.kind = "error"
    /\ qresult.jobs = <<>>

\* a step of a stream that calls getJobs
StreamFetches == method' = "stream" /\ fetched' # fetched

\* C36: calling stream() issues no fetch; the first fetch is issued by the
\* consumer's first pull; every later fetch is issued when the consumer has
\* pulled past the last item of the page before (at once, or after the
\* delay that pull started), with nothing left in the stream; and what the
\* stream holds is the part of the latest page not yet pulled.
C36_StreamIsLazy ==
    /\ [](method = "stream" /\ qpc = "start" => fetched = <<>> /\ calls = 0)
    /\ [][StreamFetches =>
            /\ method = "stream"
            /\ qpc \in {"start", "yield", "delay"}
            /\ buffer = <<>>
            /\ Len(fetched') = Len(fetched) + 1
            /\ qpc = "start" => fetched = <<>> /\ yielded = <<>>
            /\ qpc # "start" =>
                  /\ Val(Last(fetched').page) = Val(Last(fetched).page) + 1
                  /\ yielded = AllItems(Len(fetched))]_vars
    /\ [](method = "stream" /\ qpc = "fetch" => buffer = <<>>)
    /\ [](method = "stream" /\ qpc = "yield" =>
            /\ yielded \o buffer = AllItems(Len(fetched))
            /\ Len(buffer) < Len(PageJobs(currentPage)))

\* C36 witness: the consumer has pulled every item of page 0 and the first
\* of page 1, the second is held, and two pages have been fetched of three.
C36_Witness ==
    /\ method = "stream"
    /\ qpc = "yield"
    /\ totalPages = 3
    /\ Len(fetched) = 2
    /\ yielded = PageJobs(0) \o <<PageJobs(1)[1]>>
    /\ buffer = <<PageJobs(1)[2]>>

\* a request's filters apart from its page
SansPage(o) == [o EXCEPT !.page = None]

\* C37: every page a walk requests carries the filters of its first
\* request, whatever is called on the builder while the walk is under way.
C37_WalkFiltersFixed ==
    IsWalk => \A i \in 1..Len(fetched) : SansPage(fetched[i]) = SansPage(fetched[1])

====
